---- MODULE Spec2Model ----
(***************************************************************************)
(* A model of the raw-data ingestion layer of yuru_health:                 *)
(*   src/src/database_manager.py  (hash guard, timestamps, arrival read)   *)
(*   src/src/main.py, src/app.py  (the two fetch orchestrators)            *)
(*                                                                         *)
(* Time is counted in ticks of SecondsPerTick seconds since the Unix epoch *)
(* (TLC's integers are 32 bits wide: the tick keeps year 10000 in range).  *)
(* Every instant, offset and epoch number of the model is a whole number   *)
(* of ticks.                                                               *)
(***************************************************************************)
EXTENDS Integers, Sequences, FiniteSets, TLC

\* ------------------------------------------------------------------ time

SecondsPerTick == 5 * 60
TicksPerHour == 3600 \div SecondsPerTick
TicksPerDay == 24 * TicksPerHour

\* JST = timezone(timedelta(hours=9))
JstHours == 9
JST == JstHours * TicksPerHour
UTC == 0

\* The proleptic Gregorian day number of y-m-d, 1970-01-01 being day 0: the
\* calendar behind datetime's "%Y-%m-%d".
DaysFromCivil(y, m, d) ==
    LET yy == IF m <= 2 THEN y - 1 ELSE y
        era == yy \div 400
        yoe == yy - era * 400
        mp == IF m > 2 THEN m - 3 ELSE m + 9
        doy == (153 * mp + 2) \div 5 + d - 1
        doe == yoe * 365 + yoe \div 4 - yoe \div 100 + doy
    IN era * 146097 + doe - 719468

\* datetime.max is 9999-12-31T23:59:59.999999: the first tick past it.
DatetimeEnd == DaysFromCivil(10000, 1, 1) * TicksPerDay

\* A datetime: its wall-clock reading lt (ticks), and, when aware, its UTC offset.
Datetime(lt, off, aware) == [lt |-> lt, off |-> off, aware |-> aware]

\* ------------------------------------------------------------------ strings
\* A string value is kept by what the parsers can see of it:
\*   fmt "datetime"  YYYY-MM-DDTHH:MM:SS with suffix "" (naive), "Z" or "+hh:mm"
\*   fmt "date"      YYYY-MM-DD
\*   fmt "datejunk"  YYYY-MM-DD followed by characters no parser accepts
\*   fmt "text"      ten or more characters, no date in front
\*   fmt "short"     fewer than ten characters
\* lt is the wall-clock reading written in the string, off the written offset,
\* txt tells apart strings that carry no time.
IsoString(lt, off, suffix) ==
    [fmt |-> "datetime", lt |-> lt, off |-> off, suffix |-> suffix, txt |-> ""]
DateString(day) ==
    [fmt |-> "date", lt |-> day * TicksPerDay, off |-> 0, suffix |-> "", txt |-> ""]
DateJunkString(day) ==
    [fmt |-> "datejunk", lt |-> day * TicksPerDay, off |-> 0, suffix |-> "", txt |-> ""]
TextString(x) == [fmt |-> "text", lt |-> 0, off |-> 0, suffix |-> "", txt |-> x]
ShortString(x) == [fmt |-> "short", lt |-> 0, off |-> 0, suffix |-> "", txt |-> x]

\* ------------------------------------------------------------------ JSON values
\* A payload is a JSON value.  Each kind of value is a record with its own set
\* of fields; a mapping is a function from its keys, a list a sequence.
Null == [t |-> "null"]
Num(n) == [t |-> "num", n |-> n]
Str(s) == [t |-> "str", s |-> s]
\* A float written with one decimal, kept as its count of tenths (22.5 is Real(225)).
Real(tenths) == [t |-> "real", tenths |-> tenths]
Dict(f) == [t |-> "dict", d |-> f]
List(q) == [t |-> "list", it |-> q]
EmptyMap == [k \in {} |-> Null]

IsDict(v) == v.t = "dict"
IsList(v) == v.t = "list"

\* dict.get(key): the value, or None
Get(p, k) == IF k \in DOMAIN p.d THEN p.d[k] ELSE Null

\* isinstance(v, (int, float)), and the number in tenths.
IsNumber(v) == v.t \in {"num", "real"}
Tenths(v) == IF v.t = "num" THEN v.n * 10 ELSE v.tenths

\* int(v)
int(v) == IF v.t = "num" THEN v.n ELSE v.tenths \div 10

\* sum(q)
RECURSIVE Sum(_)
Sum(q) == IF q = <<>> THEN 0 ELSE Head(q) + Sum(Tail(q))

\* round(total / n, 1) for a total given in tenths: the tenth nearest to the
\* quotient.  A quotient exactly halfway between two tenths is rounded by the
\* binary expansion of the float; it is taken here to the even tenth.
round1(total, n) ==
    LET q == total \div n
        r == total % n
    IN IF 2 * r < n THEN q
       ELSE IF 2 * r > n THEN q + 1
       ELSE IF q % 2 = 0 THEN q ELSE q + 1

\* ------------------------------------------------------------------ fingerprint

\* _VOLATILE_KEYS = frozenset({...})
_VOLATILE_KEYS ==
    {"dt", "t", "time", "timestamp", "ts", "server_time",
     "fetched_at", "recorded_at", "updated_at", "created_at", "cod"}

\* _strip_volatile that descends into mappings only: a list is returned as it is.
RECURSIVE _strip_volatile_mappings(_)
_strip_volatile_mappings(obj) ==
    IF IsDict(obj)
    THEN Dict([k \in (DOMAIN obj.d) \ _VOLATILE_KEYS |-> _strip_volatile_mappings(obj.d[k])])
    ELSE obj

RECURSIVE _strip_volatile(_)
_strip_volatile(obj) ==
    IF IsDict(obj)
    THEN Dict([k \in (DOMAIN obj.d) \ _VOLATILE_KEYS |-> _strip_volatile(obj.d[k])])
    ELSE IF IsList(obj)
    THEN List([i \in 1..Len(obj.it) |-> _strip_volatile(obj.it[i])])
    ELSE obj

\* Every key the model's payloads use, in the order sort_keys=True puts them
\* (code point order).
KeyOrder ==
    <<"CO2", "cod", "contributors", "created_at", "data_type", "date", "day",
      "deep_sleep", "dt", "fetched_at", "humidity", "main", "measures", "pressure",
      "recorded_at", "score", "server_time", "steps", "t", "temp", "temperature",
      "time", "timestamp", "ts", "type", "unit", "updated_at", "value", "weather",
      "weight">>

SortedKeys(S) == SelectSeq(KeyOrder, LAMBDA k : k \in S)

\* json.dumps(stable, sort_keys=True, ensure_ascii=False, default=str): the text,
\* kept as the sequence of its members in the order they are written.
RECURSIVE json_dumps(_)
json_dumps(v) ==
    IF IsDict(v)
    THEN LET ks == SortedKeys(DOMAIN v.d)
         IN [t |-> "object",
             members |-> [i \in 1..Len(ks) |-> <<ks[i], json_dumps(v.d[ks[i]])>>]]
    ELSE IF IsList(v)
    THEN [t |-> "array", items |-> [i \in 1..Len(v.it) |-> json_dumps(v.it[i])]]
    ELSE v

\* hashlib.sha256(...).hexdigest(): a digest taken as collision free.
sha256(text) == [sha256 |-> text]

_payload_hash(payload) == sha256(json_dumps(_strip_volatile(payload)))

\* ------------------------------------------------------------------ datetime
\* The outcome of a library call: exc is "none" or the class of the exception
\* it raises, dt the datetime it returns.
NoDatetime == Datetime(0, 0, FALSE)
Returned(dt) == [exc |-> "none", dt |-> dt]
Raised(exc) == [exc |-> exc, dt |-> NoDatetime]

\* datetime.fromisoformat(s): a date alone parses to a naive midnight; a "Z"
\* suffix is refused (CPython before 3.11; the callers replace it or never see it).
fromisoformat(s) ==
    IF s.fmt = "datetime" /\ s.suffix # "Z"
    THEN Returned(Datetime(s.lt, s.off, s.suffix # ""))
    ELSE IF s.fmt = "date"
    THEN Returned(Datetime(s.lt, 0, FALSE))
    ELSE Raised("ValueError")

\* val.replace("Z", "+00:00")
ReplaceZ(s) == IF s.suffix = "Z" THEN [s EXCEPT !.suffix = "+hh:mm", !.off = UTC] ELSE s

\* datetime.strptime(val[:10], "%Y-%m-%d"): the date in front of the string.
strptime10(s) ==
    IF s.fmt \in {"datetime", "date", "datejunk"}
    THEN Returned(Datetime((s.lt \div TicksPerDay) * TicksPerDay, 0, FALSE))
    ELSE Raised("ValueError")

\* dt.replace(tzinfo=tz)
ReplaceTzinfo(dt, tz) == Datetime(dt.lt, tz, TRUE)

\* The instant (ticks since the epoch, UTC) a datetime stands for; a naive one
\* is read in the zone of the machine, local.
Instant(dt, local) == dt.lt - (IF dt.aware THEN dt.off ELSE local)

\* dt.astimezone(tz): OverflowError ("date value out of range") when the
\* reading in tz is past datetime.max.
astimezone(dt, tz, local) ==
    LET lt == Instant(dt, local) + tz
    IN IF lt >= DatetimeEnd THEN Raised("OverflowError")
       ELSE Returned(Datetime(lt, tz, TRUE))

\* datetime.fromtimestamp(val, tz=tz): ValueError ("year ... is out of range")
\* or OSError when the UTC reading is past year 9999, OverflowError when only
\* the reading in tz is.
fromtimestamp(val, tz) ==
    IF val >= DatetimeEnd THEN Raised("ValueError")
    ELSE IF val + tz >= DatetimeEnd THEN Raised("OverflowError")
    ELSE Returned(Datetime(val + tz, tz, TRUE))

\* dt.isoformat()
isoformat(dt) == IsoString(dt.lt, dt.off, IF dt.aware THEN "+hh:mm" ELSE "")

\* dt.strftime("%Y-%m-%d"): the date, as its day number.
strftime_date(dt) == dt.lt \div TicksPerDay

\* _to_jst without the conversion to JST: the wall-clock reading stays in the
\* zone the text was written in.
_to_jst_unconverted(iso_str) ==
    LET dt == fromisoformat(iso_str).dt
    IN IF ~dt.aware THEN ReplaceTzinfo(dt, UTC) ELSE dt

\* _to_jst(iso_str)
_to_jst(iso_str) ==
    LET dt == fromisoformat(iso_str).dt
        aw == IF ~dt.aware THEN ReplaceTzinfo(dt, UTC) ELSE dt
    IN astimezone(aw, JST, UTC).dt

\* _to_jst_date(iso_str)
_to_jst_date(iso_str) == strftime_date(_to_jst(iso_str))

\* _to_jst_hour(iso_str)
_to_jst_hour(iso_str) == (_to_jst(iso_str).lt % TicksPerDay) \div TicksPerHour

\* ------------------------------------------------------------------ recorded_at

\* val > 1_000_000_000 (seconds)
EpochThresholdSeconds == 1000000000
EpochThreshold == EpochThresholdSeconds \div SecondsPerTick

\* len(val) >= 10
LongEnough(s) == s.fmt # "short"

EpochKeys == <<"dt", "timestamp", "ts", "t", "time">>
IsoKeys == <<"recorded_at", "date", "day">>

\* The exception classes the two handlers of _extract_recorded_at catch.
EpochCaught == {"OSError", "ValueError"}
IsoCaught == {"ValueError"}

\* The outcome of a scan: how |-> "return" with the string returned, "raise"
\* with the exception that leaves the function, or "next" (nothing usable).
NoString == ShortString("")
ScanReturn(s) == [how |-> "return", exc |-> "none", value |-> s]
ScanRaise(exc) == [how |-> "raise", exc |-> exc, value |-> NoString]
ScanNext == [how |-> "next", exc |-> "none", value |-> NoString]

\* for key in ("dt", "timestamp", "ts", "t", "time"): ...
RECURSIVE ScanEpochKeys(_, _)
ScanEpochKeys(payload, i) ==
    IF i > Len(EpochKeys) THEN ScanNext
    ELSE LET val == Get(payload, EpochKeys[i])
         IN IF val.t = "num" /\ val.n > EpochThreshold
            THEN LET r == fromtimestamp(val.n, JST)
                 IN IF r.exc = "none" THEN ScanReturn(isoformat(r.dt))
                    ELSE IF r.exc \in EpochCaught THEN ScanEpochKeys(payload, i + 1)
                    ELSE ScanRaise(r.exc)
            ELSE ScanEpochKeys(payload, i + 1)

\* The try block of one ISO key: fromisoformat + astimezone, and in the
\* ValueError handler strptime + replace.
ParseIsoValue(s, local) ==
    LET p == fromisoformat(ReplaceZ(s))
        c == IF p.exc = "none" THEN astimezone(p.dt, JST, local) ELSE p
    IN IF c.exc = "none" THEN ScanReturn(isoformat(c.dt))
       ELSE IF c.exc \in IsoCaught
       THEN LET q == strptime10(s)
            IN IF q.exc = "none" THEN ScanReturn(isoformat(ReplaceTzinfo(q.dt, JST)))
               ELSE IF q.exc \in IsoCaught THEN ScanNext
               ELSE ScanRaise(q.exc)
       ELSE ScanRaise(c.exc)

\* for key in ("recorded_at", "date", "day"): ...
RECURSIVE ScanIsoKeys(_, _, _)
ScanIsoKeys(payload, i, local) ==
    IF i > Len(IsoKeys) THEN ScanNext
    ELSE LET val == Get(payload, IsoKeys[i])
         IN IF val.t = "str" /\ LongEnough(val.s)
            THEN LET r == ParseIsoValue(val.s, local)
                 IN IF r.how = "next" THEN ScanIsoKeys(payload, i + 1, local) ELSE r
            ELSE ScanIsoKeys(payload, i + 1, local)

\* _extract_recorded_at(payload, fallback), run on a machine whose zone is local:
\* [exc, value], value the string returned when exc = "none".
_extract_recorded_at(payload, fallback, local) ==
    IF ~IsDict(payload) THEN [exc |-> "none", value |-> isoformat(fallback)]
    ELSE LET e == ScanEpochKeys(payload, 1)
             r == IF e.how = "next" THEN ScanIsoKeys(payload, 1, local) ELSE e
         IN IF r.how = "next" THEN [exc |-> "none", value |-> isoformat(fallback)]
            ELSE [exc |-> r.exc, value |-> r.value]

\* ------------------------------------------------------------------ the store
\* raw_data_lake: the rows in the order they were inserted, a row's id being its
\* place.  fetched_at and recorded_at are TIMESTAMPTZ columns: the store keeps
\* the instant a timestamp string stands for and writes it back in UTC.
Timestamptz(s) == s.lt - s.off
StoreRender(instant) == IsoString(instant, UTC, "+hh:mm")

SameKey(row, user_id, source, category) ==
    row.user_id = user_id /\ row.source = source /\ row.category = category

\* The places of the rows in idx, fetched_at descending (.order("fetched_at", desc=True)).
RECURSIVE OrderDesc(_, _)
OrderDesc(lk, idx) ==
    IF idx = {} THEN <<>>
    ELSE LET m == CHOOSE i \in idx :
                      \A j \in idx : \/ lk[j].fetched_at < lk[i].fetched_at
                                     \/ (lk[j].fetched_at = lk[i].fetched_at /\ j <= i)
         IN <<m>> \o OrderDesc(lk, idx \ {m})

Head1(q, n) == IF Len(q) <= n THEN q ELSE SubSeq(q, 1, n)

\* The lookup ordered the wrong way round: the oldest row of the key.
SelectOldest(lk, user_id, source, category) ==
    LET idx == {i \in 1..Len(lk) : SameKey(lk[i], user_id, source, category)}
        ord == OrderDesc(lk, idx)
    IN IF ord = <<>> THEN <<>>
       ELSE <<[id |-> lk[ord[Len(ord)]].id, payload |-> lk[ord[Len(ord)]].payload]>>

\* The lookup without its three filters: the latest row of the whole table.
SelectLatestOfTable(lk, user_id, source, category) ==
    LET ord == Head1(OrderDesc(lk, 1..Len(lk)), 1)
    IN [i \in 1..Len(ord) |-> [id |-> lk[ord[i]].id, payload |-> lk[ord[i]].payload]]

\* .select("id, payload").eq(user_id).eq(source).eq(category)
\*     .order("fetched_at", desc=True).limit(1).execute(): the data returned.
SelectLatest(lk, user_id, source, category) ==
    LET idx == {i \in 1..Len(lk) : SameKey(lk[i], user_id, source, category)}
        ord == Head1(OrderDesc(lk, idx), 1)
    IN [i \in 1..Len(ord) |-> [id |-> lk[ord[i]].id, payload |-> lk[ord[i]].payload]]

\* An upsert on (user_id, source, category): the row of the key is overwritten.
StoreUpsert(lk, data) ==
    LET at == Timestamptz(data.fetched_at)
        row(id) == [id |-> id,
                    user_id |-> data.user_id,
                    source |-> data.source,
                    category |-> data.category,
                    fetched_at |-> at,
                    recorded_at |-> Timestamptz(data.recorded_at),
                    payload |-> data.payload]
        old == {i \in 1..Len(lk) : SameKey(lk[i], data.user_id, data.source, data.category)}
    IN IF old = {} THEN [exc |-> "none", lake |-> Append(lk, row(Len(lk) + 1))]
       ELSE [exc |-> "none",
             lake |-> [i \in 1..Len(lk) |-> IF i \in old THEN row(lk[i].id) ELSE lk[i]]]

\* An insert under a constraint on (user_id, source, category) alone: a second
\* row of a key is refused.
StoreInsertOnePerKey(lk, data) ==
    IF \E i \in 1..Len(lk) : SameKey(lk[i], data.user_id, data.source, data.category)
    THEN [exc |-> "APIError", lake |-> lk]
    ELSE [exc |-> "none",
          lake |-> Append(lk, [id |-> Len(lk) + 1,
                               user_id |-> data.user_id,
                               source |-> data.source,
                               category |-> data.category,
                               fetched_at |-> Timestamptz(data.fetched_at),
                               recorded_at |-> Timestamptz(data.recorded_at),
                               payload |-> data.payload])]

\* .insert(data).execute() under the constraint unique_raw_data_v2
\* (user_id, fetched_at, source, category).
StoreInsert(lk, data) ==
    LET at == Timestamptz(data.fetched_at)
    IN IF \E i \in 1..Len(lk) :
              SameKey(lk[i], data.user_id, data.source, data.category)
              /\ lk[i].fetched_at = at
       THEN [exc |-> "APIError", lake |-> lk]
       ELSE [exc |-> "none",
             lake |-> Append(lk, [id |-> Len(lk) + 1,
                                  user_id |-> data.user_id,
                                  source |-> data.source,
                                  category |-> data.category,
                                  fetched_at |-> at,
                                  recorded_at |-> Timestamptz(data.recorded_at),
                                  payload |-> data.payload])]

\* ------------------------------------------------------------------ save_raw_data

\* A wall clock that runs backwards: its readings are mirrored at 2026-03-01T00:00:00Z.
_now_jst_backwards(clock) ==
    Datetime(2 * DaysFromCivil(2026, 3, 1) * TicksPerDay - clock + JST, JST, TRUE)

\* _now_jst() when the wall clock shows clock
_now_jst(clock) == Datetime(clock + JST, JST, TRUE)

\* _parse_raw_data(raw_data): a str holding JSON text is parsed, anything else
\* is returned as it is.
JsonText(v) == [t |-> "jsontext", parsed |-> v]
_parse_raw_data(raw_data) ==
    IF raw_data.t = "jsontext" THEN raw_data.parsed ELSE raw_data

\* A handler that catches the parsing errors only.
SaveCaughtParsing == {"OSError", "ValueError", "OverflowError"}

\* except Exception: every exception class of the model is one.
SaveCaught == {"APIError", "OSError", "ValueError", "OverflowError"}

\* How a call ends: the lake it leaves, outcome "inserted", "skipped" or
\* "failed" (the except branch), and raised, the exception that reaches the
\* caller ("none": the call returns).
Ended(lk, outcome) == [lake |-> lk, outcome |-> outcome, raised |-> "none"]
Thrown(lk, exc) ==
    IF exc \in SaveCaught THEN Ended(lk, "failed")
    ELSE [lake |-> lk, outcome |-> "failed", raised |-> exc]

\* The body of save_raw_data.  fault names the store round trip that raises in
\* this call ("none", "lookup" or "insert"); a round trip that raises leaves
\* the table as it was.  clock is the wall clock when _now_jst() is read, local
\* the zone of the machine.
SaveRawData(lk, user_id, source, category, payload, fault, clock, local) ==
    LET new_payload == IF IsDict(payload) THEN payload ELSE _parse_raw_data(payload)
        new_hash == _payload_hash(new_payload)
    IN IF fault = "lookup" THEN Thrown(lk, "APIError")
       ELSE LET existing == SelectLatest(lk, user_id, source, category)
            IN IF existing # <<>> /\ new_hash = _payload_hash(existing[1].payload)
               THEN Ended(lk, "skipped")
               ELSE LET now == _now_jst(clock)
                        recorded_at == _extract_recorded_at(new_payload, now, local)
                    IN IF recorded_at.exc # "none" THEN Thrown(lk, recorded_at.exc)
                       ELSE IF fault = "insert" THEN Thrown(lk, "APIError")
                       ELSE LET ins == StoreInsert(lk,
                                           [user_id |-> user_id,
                                            fetched_at |-> isoformat(now),
                                            recorded_at |-> recorded_at.value,
                                            source |-> source,
                                            category |-> category,
                                            payload |-> new_payload])
                            IN IF ins.exc # "none" THEN Thrown(lk, ins.exc)
                               ELSE Ended(ins.lake, "inserted")

\* A caller that issues the failed round trip a second time.
StoreRequestsRetrying(lk, user_id, source, category, payload, fault, clock, local) ==
    IF fault = "lookup" THEN <<"select", "select">>
    ELSE IF fault = "insert" THEN <<"select", "insert", "insert">>
    ELSE <<"select", "insert">>

\* The requests one call of save_raw_data sends to the store, in their order:
\* the select of the latest record (.execute() of the lookup), then, unless
\* the call returns as a duplicate or _extract_recorded_at raises, the insert.
\* A request that raises is followed by the except branch, which sends none.
StoreRequests(lk, user_id, source, category, payload, fault, clock, local) ==
    LET new_payload == IF IsDict(payload) THEN payload ELSE _parse_raw_data(payload)
        new_hash == _payload_hash(new_payload)
    IN IF fault = "lookup" THEN <<"select">>
       ELSE LET existing == SelectLatest(lk, user_id, source, category)
            IN IF existing # <<>> /\ new_hash = _payload_hash(existing[1].payload)
               THEN <<"select">>
               ELSE IF _extract_recorded_at(new_payload, _now_jst(clock), local).exc # "none"
               THEN <<"select">>
               ELSE <<"select", "insert">>

\* ------------------------------------------------------------------ get_data_arrival_rich

\* .limit(10000)
ArrivalLimit == 10000

\* response.data of the range query: the rows fetched since start, newest
\* first, as the store returns them (fetched_at written in UTC).
ArrivalRows(lk, clock, days) ==
    LET start_date == isoformat(Datetime(_now_jst(clock).lt - days * TicksPerDay, JST, TRUE))
        idx == {i \in 1..Len(lk) : lk[i].fetched_at >= Timestamptz(start_date)}
        ord == Head1(OrderDesc(lk, idx), ArrivalLimit)
    IN [i \in 1..Len(ord) |-> [source |-> lk[ord[i]].source,
                               category |-> lk[ord[i]].category,
                               fetched_at |-> StoreRender(lk[ord[i]].fetched_at),
                               payload |-> lk[ord[i]].payload]]

\* buckets: (source, JST date of fetched_at) -> the rows of the group, in the
\* order of the response.
ArrivalBuckets(rows) ==
    LET KeyOf(row) == <<row.source, _to_jst_date(row.fetched_at)>>
        keys == {KeyOf(rows[i]) : i \in 1..Len(rows)}
    IN [key \in keys |-> SelectSeq(rows, LAMBDA row : KeyOf(row) = key)]

\* The samples _build_timeseries takes from the rows of a group, in the order
\* of the rows; a field the source does not have is absent (None).
RECURSIVE Timeseries(_, _)
Timeseries(source, rows) ==
    IF rows = <<>> THEN <<>>
    ELSE LET row == Head(rows)
             payload == row.payload
             hour == _to_jst_hour(row.fetched_at)
             main == IF IsDict(payload) /\ "main" \in DOMAIN payload.d
                     THEN payload.d["main"] ELSE Dict(EmptyMap)
             point == IF source = "switchbot"
                      THEN <<[hour |-> hour,
                              temp |-> Get(payload, "temperature"),
                              humidity |-> Get(payload, "humidity"),
                              co2 |-> Get(payload, "CO2"),
                              pressure |-> Null]>>
                      ELSE IF source = "weather"
                      THEN <<[hour |-> hour,
                              temp |-> Get(main, "temp"),
                              humidity |-> Get(main, "humidity"),
                              co2 |-> Null,
                              pressure |-> Get(main, "pressure")]>>
                      ELSE <<>>
         IN IF ~IsDict(payload) THEN Timeseries(source, Tail(rows))
            ELSE point \o Timeseries(source, Tail(rows))

SummaryFields == {"temp", "humidity", "co2", "pressure"}
Stats == {"avg", "min", "max"}

\* min(vals), max(vals)
Min(S) == CHOOSE x \in S : \A y \in S : x <= y
Max(S) == CHOOSE x \in S : \A y \in S : x >= y

\* A summary that keeps the first sample of each field in place of the
\* statistics of the samples.
SummaryOfFirst(timeseries) ==
    LET vals(field) == SelectSeq([i \in 1..Len(timeseries) |-> timeseries[i][field]],
                                 LAMBDA v : v # Null)
        has == {field \in SummaryFields : vals(field) # <<>>}
    IN [key \in has \X Stats |-> Real(Tenths(vals(key[1])[1]))]

\* summary: for each field with a sample that is not None, the members
\* <field>_avg, <field>_min and <field>_max, each rounded to one decimal; the
\* member is named here by the pair (field, statistic).
Summary(timeseries) ==
    LET vals(field) == SelectSeq([i \in 1..Len(timeseries) |-> timeseries[i][field]],
                                 LAMBDA v : v # Null)
        tenths(field) == [i \in 1..Len(vals(field)) |-> Tenths(vals(field)[i])]
        has == {field \in SummaryFields : vals(field) # <<>>}
        stat(field, st) ==
            LET q == tenths(field)
                S == {q[i] : i \in 1..Len(q)}
            IN IF st = "avg" THEN round1(Sum(q), Len(q))
               ELSE IF st = "min" THEN round1(Min(S), 1)
               ELSE round1(Max(S), 1)
    IN [key \in has \X Stats |-> Real(stat(key[1], key[2]))]

\* _build_timeseries(source, rows)
_build_timeseries(source, rows) ==
    LET timeseries == Timeseries(source, rows)
    IN [timeseries |-> timeseries, summary |-> Summary(timeseries)]

\* badge[field] = value
Put(badge, field, value) == (field :> value) @@ badge

\* _build_oura_badge(rows): the rows are walked in their order, each
\* assignment replacing what an earlier row has set.
RECURSIVE OuraBadge(_, _)
OuraBadge(badge, rows) ==
    IF rows = <<>> THEN badge
    ELSE LET row == Head(rows)
             payload == row.payload
             cat == row.category
             scored == IF cat \in {"sleep", "activity", "readiness"}
                          /\ "score" \in DOMAIN payload.d
                       THEN Put(badge, cat \o "_score", payload.d["score"])
                       ELSE badge
             stepped == IF "steps" \in DOMAIN payload.d
                        THEN Put(scored, "steps", payload.d["steps"])
                        ELSE scored
         IN IF ~IsDict(payload) THEN OuraBadge(badge, Tail(rows))
            ELSE OuraBadge(stepped, Tail(rows))

_build_oura_badge(rows) == OuraBadge(EmptyMap, rows)

\* 10 ** n for n >= 0
RECURSIVE Pow10(_)
Pow10(n) == IF n = 0 THEN 1 ELSE 10 * Pow10(n - 1)

\* round(value * 10 ** unit, 1), in tenths
ScaledTenths(value, unit) ==
    IF unit >= -1 THEN value * Pow10(unit + 1) ELSE round1(value, Pow10(-(unit + 1)))

\* The weights one row adds to the list: payload.weight, then the measures of
\* type 1 whose value is positive, in the order of the list.
RowWeights(payload) ==
    LET w == Get(payload, "weight")
        measures == IF "measures" \in DOMAIN payload.d THEN payload.d["measures"].it ELSE <<>>
        valid == SelectSeq(measures,
                     LAMBDA m : Get(m, "type") = Num(1) /\ Tenths(Get(m, "value")) > 0)
    IN (IF w # Null THEN <<Tenths(w)>> ELSE <<>>)
       \o [i \in 1..Len(valid) |-> ScaledTenths(valid[i].d["value"].n, Get(valid[i], "unit").n)]

RECURSIVE Weights(_)
Weights(rows) ==
    IF rows = <<>> THEN <<>>
    ELSE IF ~IsDict(Head(rows).payload) THEN Weights(Tail(rows))
    ELSE RowWeights(Head(rows).payload) \o Weights(Tail(rows))

\* _build_withings_badge(rows): weights[-1]
_build_withings_badge(rows) ==
    LET weights == Weights(rows)
    IN IF weights # <<>> THEN ("weight_kg" :> Real(round1(weights[Len(weights)], 1)))
       ELSE EmptyMap

\* "step" in dt.lower(), "weight" in dt.lower(), "sleep" in dt.lower(), for the
\* data types and categories the Google Fit fetcher writes.
StepTypes == {"steps", "com.google.step_count.delta"}
WeightTypes == {"weight", "com.google.weight"}
SleepTypes == {"sleep", "com.google.sleep.segment"}

\* _build_google_fit_badge(rows)
RECURSIVE GoogleFitBadge(_, _)
GoogleFitBadge(badge, rows) ==
    IF rows = <<>> THEN badge
    ELSE LET row == Head(rows)
             payload == row.payload
             dt == IF "data_type" \in DOMAIN payload.d
                   THEN payload.d["data_type"].s.txt ELSE row.category
             val == Get(payload, "value")
             set == IF val = Null THEN badge
                    ELSE IF dt \in StepTypes THEN Put(badge, "steps", Num(int(val)))
                    ELSE IF dt \in WeightTypes THEN Put(badge, "weight_kg", Real(Tenths(val)))
                    ELSE IF dt \in SleepTypes THEN Put(badge, "sleep_min", Num(int(val)))
                    ELSE badge
         IN IF ~IsDict(payload) THEN GoogleFitBadge(badge, Tail(rows))
            ELSE GoogleFitBadge(set, Tail(rows))

_build_google_fit_badge(rows) == GoogleFitBadge(EmptyMap, rows)

\* The builders use their values without a check of the type: an operation that
\* a value does not support raises (TypeError, AttributeError, ValueError), and
\* nothing in get_data_arrival_rich catches it.  The strings of the payloads
\* hold no numeric text.

\* _build_timeseries raises: main.get of a main that is no mapping, or sum(vals)
\* over a sample that is neither None nor a number.
TimeseriesRaises(source, rows) ==
    \/ /\ source = "weather"
       /\ \E i \in 1..Len(rows) :
              /\ IsDict(rows[i].payload)
              /\ "main" \in DOMAIN rows[i].payload.d
              /\ ~IsDict(rows[i].payload.d["main"])
    \/ /\ ~(source = "weather" /\ \E i \in 1..Len(rows) :
                                    /\ IsDict(rows[i].payload)
                                    /\ "main" \in DOMAIN rows[i].payload.d
                                    /\ ~IsDict(rows[i].payload.d["main"]))
       /\ LET ts == Timeseries(source, rows)
          IN \E i \in 1..Len(ts), field \in SummaryFields :
                 ts[i][field] # Null /\ ~IsNumber(ts[i][field])

\* _build_oura_badge raises: "steps" in payload.get("contributors", {}) when
\* contributors is None or a number.
OuraBadgeRaises(rows) ==
    \E i \in 1..Len(rows) :
        /\ IsDict(rows[i].payload)
        /\ "contributors" \in DOMAIN rows[i].payload.d
        /\ rows[i].payload.d["contributors"].t \in {"null", "num", "real"}

\* _build_withings_badge raises: float(w) of a weight that is no number, the
\* loop over measures that are no list of mappings, or value * 10 ** unit with a
\* value or a unit that is no number.
MeasureRaises(m) ==
    \/ ~IsDict(m)
    \/ /\ IsDict(m)
       /\ Get(m, "type") = Num(1)
       /\ \/ "value" \in DOMAIN m.d /\ ~IsNumber(m.d["value"])
          \/ "unit" \in DOMAIN m.d /\ ~IsNumber(m.d["unit"])
WithingsBadgeRaises(rows) ==
    \E i \in 1..Len(rows) :
        /\ IsDict(rows[i].payload)
        /\ \/ Get(rows[i].payload, "weight") # Null /\ ~IsNumber(Get(rows[i].payload, "weight"))
           \/ /\ "measures" \in DOMAIN rows[i].payload.d
              /\ IF IsList(rows[i].payload.d["measures"])
                 THEN \E k \in 1..Len(rows[i].payload.d["measures"].it) :
                          MeasureRaises(rows[i].payload.d["measures"].it[k])
                 ELSE rows[i].payload.d["measures"] \notin {Dict(EmptyMap), Str(TextString(""))}

\* _build_google_fit_badge raises: dt.lower() of a data_type that is no string,
\* or int(val), float(val) of a value that is no number.
GoogleFitBadgeRaises(rows) ==
    \E i \in 1..Len(rows) :
        /\ IsDict(rows[i].payload)
        /\ IF "data_type" \in DOMAIN rows[i].payload.d /\ rows[i].payload.d["data_type"].t # "str"
           THEN TRUE
           ELSE LET dt == IF "data_type" \in DOMAIN rows[i].payload.d
                          THEN rows[i].payload.d["data_type"].s.txt ELSE rows[i].category
                    val == Get(rows[i].payload, "value")
                IN /\ val # Null /\ ~IsNumber(val)
                   /\ dt \in StepTypes \cup WeightTypes \cup SleepTypes

\* get_data_arrival_rich(days) raises: one of the builders does, for one of the
\* buckets.
ArrivalRaises(lk, clock, days) ==
    LET buckets == ArrivalBuckets(ArrivalRows(lk, clock, days))
    IN \E key \in DOMAIN buckets :
           \/ key[1] \in {"switchbot", "weather"} /\ TimeseriesRaises(key[1], buckets[key])
           \/ key[1] = "oura" /\ OuraBadgeRaises(buckets[key])
           \/ key[1] = "withings" /\ WithingsBadgeRaises(buckets[key])
           \/ key[1] = "google_fit" /\ GoogleFitBadgeRaises(buckets[key])

\* The result of get_data_arrival_rich(days): one entry per bucket.
ArrivalRich(lk, clock, days) ==
    LET buckets == ArrivalBuckets(ArrivalRows(lk, clock, days))
        entry(key) ==
            LET source == key[1]
                rows == buckets[key]
            IN IF source \in {"switchbot", "weather"}
               THEN LET ts == _build_timeseries(source, rows)
                    IN [has_data |-> TRUE, timeseries |-> ts.timeseries, summary |-> ts.summary]
               ELSE IF source = "oura"
               THEN [has_data |-> TRUE, badge |-> _build_oura_badge(rows)]
               ELSE IF source = "withings"
               THEN [has_data |-> TRUE, badge |-> _build_withings_badge(rows)]
               ELSE IF source = "google_fit"
               THEN [has_data |-> TRUE, badge |-> _build_google_fit_badge(rows)]
               ELSE [has_data |-> TRUE]
    IN [key \in DOMAIN buckets |-> entry(key)]

\* ------------------------------------------------------------------ the footprint grid

\* _SOURCE_LABELS, in the order of the dict.
_SOURCE_LABELS == <<"oura", "withings", "google_fit", "weather", "switchbot">>

\* _dt.date.today(): the calendar date the machine's zone shows.
date_today(clock, local) == (clock + local) \div TicksPerDay

\* build_footprint_html(rich_history, days) on the date today: the cells of the
\* table by (source, date), total_cells and filled_cells.
build_footprint_html(rich_history, days, today) ==
    LET date_range == [i \in 1..days |-> today - (days - i)]
        keys == {<<_SOURCE_LABELS[n], date_range[i]>> : n \in 1..Len(_SOURCE_LABELS), i \in 1..days}
        cells == [key \in keys |->
                     [has_data |-> key \in DOMAIN rich_history /\ rich_history[key].has_data]]
    IN [cells |-> cells,
        total_cells |-> Len(_SOURCE_LABELS) * Len(date_range),
        filled_cells |-> Cardinality({key \in keys : cells[key].has_data})]

\* app.py: get_data_arrival_rich(days=30), build_footprint_html(..., days=7)
FootprintWindow == 30
FootprintDays == 7

\* rich_history_recent: the entries of the 7 latest dates that have data.
RecentHistory(rich_history) ==
    LET dates == {key[2] : key \in DOMAIN rich_history}
        recent_dates == {d \in dates : Cardinality({e \in dates : e > d}) < FootprintDays}
    IN [key \in {k \in DOMAIN rich_history : k[2] \in recent_dates} |-> rich_history[key]]

\* ------------------------------------------------------------------ get_correlation_data

\* .order("fetched_at"): the places of the rows in idx, fetched_at ascending.
OrderAsc(lk, idx) ==
    LET desc == OrderDesc(lk, idx)
    IN [i \in 1..Len(desc) |-> desc[Len(desc) + 1 - i]]

\* The rows of (source, category) fetched since start_date, oldest first.
CorrelationRows(lk, clock, days, source, category) ==
    LET start_date == isoformat(Datetime(_now_jst(clock).lt - days * TicksPerDay, JST, TRUE))
        idx == {i \in 1..Len(lk) : /\ lk[i].source = source
                                   /\ lk[i].category = category
                                   /\ lk[i].fetched_at >= Timestamptz(start_date)}
        ord == OrderAsc(lk, idx)
    IN [i \in 1..Len(ord) |-> [payload |-> lk[ord[i]].payload,
                               recorded_at |-> StoreRender(lk[ord[i]].recorded_at),
                               fetched_at |-> StoreRender(lk[ord[i]].fetched_at)]]

\* date_str[:10]: the date in front of a string, written as a date.
Prefix10(s) ==
    IF s.fmt \in {"datetime", "date", "datejunk"} THEN DateString(s.lt \div TicksPerDay) ELSE s

\* sleep_rows: one entry per oura/sleep row with a score and a date of ten
\* characters; the date is payload.day, or else recorded_at[:10].
RECURSIVE SleepRows(_)
SleepRows(rows) ==
    IF rows = <<>> THEN <<>>
    ELSE LET row == Head(rows)
             payload == row.payload
             score == IF IsDict(payload) THEN Get(payload, "score") ELSE Null
             day == IF IsDict(payload) THEN Get(payload, "day") ELSE Null
             date_str == IF day.t = "str" THEN day.s ELSE row.recorded_at
         IN IF ~IsDict(payload) \/ score = Null \/ ~LongEnough(date_str)
            THEN SleepRows(Tail(rows))
            ELSE <<[date |-> Prefix10(date_str), sleep_score |-> int(score)]>>
                 \o SleepRows(Tail(rows))

\* A frame cleared of its duplicates by keeping the first row of each date.
DropDuplicatesKeepFirst(df) ==
    LET keep == {i \in 1..Len(df) : \A j \in 1..(i - 1) : df[j].date # df[i].date}
    IN [n \in 1..Cardinality(keep) |->
            df[CHOOSE i \in keep : Cardinality({j \in keep : j < i}) = n - 1]]

\* df.drop_duplicates(subset="date", keep="last")
DropDuplicatesKeepLast(df) ==
    LET keep == {i \in 1..Len(df) : \A j \in (i + 1)..Len(df) : df[j].date # df[i].date}
    IN [n \in 1..Cardinality(keep) |->
            df[CHOOSE i \in keep : Cardinality({j \in keep : j < i}) = n - 1]]

\* env_rows: one entry per switchbot/environment row, dated by the JST date of
\* fetched_at.
RECURSIVE EnvRows(_)
EnvRows(rows) ==
    IF rows = <<>> THEN <<>>
    ELSE LET row == Head(rows)
             payload == row.payload
         IN IF ~IsDict(payload) THEN EnvRows(Tail(rows))
            ELSE <<[date |-> DateString(_to_jst_date(row.fetched_at)),
                    co2 |-> Get(payload, "CO2"),
                    temp |-> Get(payload, "temperature"),
                    humidity |-> Get(payload, "humidity")]>>
                 \o EnvRows(Tail(rows))

\* The mean of a column of a group, rounded to one decimal (.round(1)); None
\* values are skipped, and a group with no value has none (NaN).
MeanRound1(values) ==
    LET nums == SelectSeq(values, IsNumber)
    IN IF nums = <<>> THEN Null
       ELSE Real(round1(Sum([i \in 1..Len(nums) |-> Tenths(nums[i])]), Len(nums)))

\* df_env.groupby("date").agg(mean...).round(1): date -> the three averages.
EnvAgg(df_env) ==
    LET dates == {df_env[i].date : i \in 1..Len(df_env)}
        group(d) == SelectSeq(df_env, LAMBDA row : row.date = d)
        column(g, f) == [i \in 1..Len(g) |-> g[i][f]]
    IN [d \in dates |-> [co2_avg |-> MeanRound1(column(group(d), "co2")),
                         temp_avg |-> MeanRound1(column(group(d), "temp")),
                         humidity_avg |-> MeanRound1(column(group(d), "humidity"))]]

NoAverages == [co2_avg |-> Null, temp_avg |-> Null, humidity_avg |-> Null]

\* df.sort_values("date"): the rows of a frame whose dates are all different.
SortByDate(rows) ==
    [n \in 1..Cardinality(rows) |->
        CHOOSE row \in rows : Cardinality({o \in rows : o.date.lt < row.date.lt}) = n - 1]

JoinedRow(sleep, averages) ==
    [date |-> sleep.date, sleep_score |-> sleep.sleep_score,
     co2_avg |-> averages.co2_avg, temp_avg |-> averages.temp_avg,
     humidity_avg |-> averages.humidity_avg]

\* A merge that keeps only the dates both frames have.
MergeInner(df_sleep, df_env_agg) ==
    {JoinedRow(df_sleep[i], df_env_agg[df_sleep[i].date]) :
        i \in {j \in 1..Len(df_sleep) : df_sleep[j].date \in DOMAIN df_env_agg}}

\* pd.merge(df_sleep, df_env_agg, on="date", how="left")
MergeLeft(df_sleep, df_env_agg) ==
    {JoinedRow(df_sleep[i],
               IF df_sleep[i].date \in DOMAIN df_env_agg
               THEN df_env_agg[df_sleep[i].date] ELSE NoAverages) : i \in 1..Len(df_sleep)}

\* get_correlation_data(days): the rows of the frame returned, in their order.
CorrelationData(lk, clock, days) ==
    LET sleep_rows == SleepRows(CorrelationRows(lk, clock, days, "oura", "sleep"))
        df_sleep == DropDuplicatesKeepLast(sleep_rows)
        env_rows == EnvRows(CorrelationRows(lk, clock, days, "switchbot", "environment"))
    IN IF sleep_rows = <<>> THEN <<>>
       ELSE IF env_rows = <<>>
       THEN SortByDate({JoinedRow(df_sleep[i], NoAverages) : i \in 1..Len(df_sleep)})
       ELSE SortByDate(MergeLeft(df_sleep, EnvAgg(env_rows)))

\* ------------------------------------------------------------------ get_raw_data_by_date

\* f"{target_date}T00:00:00" and f"{target_date}T23:59:59": strings without
\* offset.  23:59:59 is kept as the last tick of the day: for instants on whole
\* ticks, being at or before it is being at or before that tick.
DayStart(target_date) == IsoString(target_date * TicksPerDay, UTC, "")
DayEnd(target_date) == IsoString(target_date * TicksPerDay + (TicksPerDay - 1), UTC, "")

\* get_raw_data_by_date(target_date, user_id): source -> the rows of the user
\* between the two bounds, newest first.  The store reads a timestamp without
\* offset in its session zone, UTC.
RawDataByDate(lk, target_date, user_id) ==
    LET start == DayStart(target_date)
        end == DayEnd(target_date)
        idx == {i \in 1..Len(lk) : /\ lk[i].user_id = user_id
                                   /\ lk[i].fetched_at >= Timestamptz(start)
                                   /\ lk[i].fetched_at <= Timestamptz(end)}
        ord == OrderDesc(lk, idx)
        data == [n \in 1..Len(ord) |->
                    [lk[ord[n]] EXCEPT !.fetched_at = StoreRender(lk[ord[n]].fetched_at),
                                       !.recorded_at = StoreRender(lk[ord[n]].recorded_at)]]
        sources == {data[n].source : n \in 1..Len(data)}
    IN [source \in sources |-> SelectSeq(data, LAMBDA row : row.source = source)]

\* ------------------------------------------------------------------ inputs

MaxCalls == 3

\* 2026-02-11
Day0 == DaysFromCivil(2026, 2, 11)
\* 2026-02-11T14:30:00Z = 23:30 JST
Clock0 == Day0 * TicksPerDay + 14 * TicksPerHour + TicksPerHour \div 2
\* Time that passes between two readings of the wall clock.
ClockSteps == {TicksPerHour \div 2, JST}
\* The zones of the machines the code runs on (CI runner and cloud: UTC; desktop: JST).
LocalZones == {UTC, JST}

OuraSleep == <<"user_001", "oura", "sleep">>
SwitchBotEnv == <<"system", "switchbot", "environment">>

\* An Oura daily_sleep item.
SleepA ==
    Dict(("day" :> Str(DateString(Day0))) @@ ("score" :> Num(82))
         @@ ("timestamp" :> Str(IsoString(Day0 * TicksPerDay, UTC, "+hh:mm")))
         @@ ("contributors" :> Dict(("deep_sleep" :> Num(90)))))
\* The same item with another timestamp (a volatile key).
SleepA2 ==
    Dict([SleepA.d EXCEPT !["timestamp"] = Str(IsoString(Day0 * TicksPerDay + 1, UTC, "+hh:mm"))])
\* The item with another score.
SleepB == Dict([SleepA.d EXCEPT !["score"] = Num(75)])
\* A SwitchBot status body.
EnvA == Dict(("temperature" :> Num(22)) @@ ("humidity" :> Num(48)) @@ ("CO2" :> Num(900)))
\* A payload whose epoch field dt is 9999-12-31T23:55:00Z.
LateDt == Dict(("score" :> Num(82)) @@ ("dt" :> Num(DatetimeEnd - 1)))

\* The calls the fetchers make: (user_id, source, category) and the payload.
SaveInputs ==
    {<<OuraSleep, SleepA>>, <<OuraSleep, SleepA2>>, <<OuraSleep, SleepB>>,
     <<OuraSleep, LateDt>>, <<SwitchBotEnv, EnvA>>}
Faults == {"none", "lookup", "insert"}
ArrivalDays == {1, 14}

\* ------------------------------------------------------------------ state

VARIABLES
    lake,      \* the rows of raw_data_lake
    clock,     \* the wall clock (UTC instant) at its last reading
    local_tz,  \* the zone of the machine
    ncalls,    \* save_raw_data calls made
    last,      \* the last operation on the lake: its arguments and how it ended
    orch,      \* a run of a fetch orchestrator
    fn,        \* a call of a pure function: its input and its result
    proc       \* the calls of save_raw_data under way in concurrent processes

vars == <<lake, clock, local_tz, ncalls, last, orch, fn, proc>>

Idle == [op |-> "none"]

Init ==
    /\ lake = <<>>
    /\ clock = Clock0
    /\ local_tz \in LocalZones
    /\ ncalls = 0
    /\ last = Idle
    /\ orch = Idle
    /\ fn = Idle
    /\ proc = Idle

\* One call of save_raw_data, run to its end.
save_raw_data(user_id, source, category, payload, fault, step) ==
    /\ ncalls < MaxCalls
    /\ LET r == SaveRawData(lake, user_id, source, category, payload, fault,
                            clock + step, local_tz)
       IN /\ lake' = r.lake
          /\ last' = [op |-> "save", user_id |-> user_id, source |-> source,
                      category |-> category, payload |-> payload, fault |-> fault,
                      outcome |-> r.outcome, raised |-> r.raised,
                      requests |-> StoreRequests(lake, user_id, source, category, payload,
                                                 fault, clock + step, local_tz)]
    /\ clock' = clock + step
    /\ ncalls' = ncalls + 1
    /\ UNCHANGED <<local_tz, orch, fn, proc>>

\* One call of get_data_arrival_rich: last keeps the buckets the call built and
\* the result it returned, or that it raised (and returned nothing).
get_data_arrival_rich(days) ==
    /\ last' = [op |-> "arrival", days |-> days,
                buckets |-> ArrivalBuckets(ArrivalRows(lake, clock, days)),
                raised |-> ArrivalRaises(lake, clock, days),
                result |-> IF ArrivalRaises(lake, clock, days) THEN EmptyMap
                           ELSE ArrivalRich(lake, clock, days)]
    /\ UNCHANGED <<lake, clock, local_tz, ncalls, orch, fn, proc>>

Next ==
    \/ \E inp \in SaveInputs, fault \in Faults, step \in ClockSteps :
           save_raw_data(inp[1][1], inp[1][2], inp[1][3], inp[2], fault, step)
    \/ \E days \in ArrivalDays : get_data_arrival_rich(days)

Spec == Init /\ [][Next]_vars

\* ------------------------------------------------------------------ the lake: vocabulary

KeyOfRow(r) == <<r.user_id, r.source, r.category>>

\* The rows of a key, in the order of the table.
RowsOf(lk, key) == SelectSeq(lk, LAMBDA r : KeyOfRow(r) = key)

\* The row of the key fetched last.
LatestOf(lk, key) ==
    LET rows == RowsOf(lk, key)
    IN rows[CHOOSE i \in 1..Len(rows) :
                 \A j \in 1..Len(rows) : rows[j].fetched_at <= rows[i].fetched_at]

\* Two rows of one key with no row of the key fetched between them.
Adjacent(lk, i, j) ==
    /\ KeyOfRow(lk[i]) = KeyOfRow(lk[j])
    /\ lk[i].fetched_at < lk[j].fetched_at
    /\ ~ \E k \in 1..Len(lk) : /\ KeyOfRow(lk[k]) = KeyOfRow(lk[i])
                               /\ lk[i].fetched_at < lk[k].fetched_at
                               /\ lk[k].fetched_at < lk[j].fetched_at

\* a and b are the same value but for entries under volatile keys, at any depth.
RECURSIVE SameButVolatile(_, _)
SameButVolatile(a, b) ==
    IF IsDict(a) /\ IsDict(b)
    THEN /\ DOMAIN a.d \ _VOLATILE_KEYS = DOMAIN b.d \ _VOLATILE_KEYS
         /\ \A k \in DOMAIN a.d \ _VOLATILE_KEYS : SameButVolatile(a.d[k], b.d[k])
    ELSE IF IsList(a) /\ IsList(b)
    THEN /\ Len(a.it) = Len(b.it)
         /\ \A i \in 1..Len(a.it) : SameButVolatile(a.it[i], b.it[i])
    ELSE a = b

\* This step is a call of save_raw_data with a healthy store.
HealthySave == ncalls' = ncalls + 1 /\ last'.fault = "none"
SavedKey == <<last'.user_id, last'.source, last'.category>>

\* ------------------------------------------------------------------ the lake: claims

\* C1: with a healthy store, a call for a key that holds no record leaves the
\* key with exactly one record, and a call whose payload is the latest
\* record's payload, or differs from it only in volatile keys, leaves the lake
\* as it was: P, P again, then P' stores exactly one record.
C1_IdempotentIngest ==
    [][HealthySave =>
          LET before == RowsOf(lake, SavedKey)
              after == RowsOf(lake', SavedKey)
          IN /\ before = <<>> => Len(after) = 1
             /\ (before # <<>>
                 /\ SameButVolatile(LatestOf(lake, SavedKey).payload, last'.payload))
                => lake' = lake]_vars

\* C2: with a healthy store, a call whose payload differs from the latest
\* record of its key in a retained field stores a second record, and the two
\* payloads have different fingerprints.
C2_ChangeDetection ==
    [][(HealthySave /\ RowsOf(lake, SavedKey) # <<>>
        /\ ~SameButVolatile(LatestOf(lake, SavedKey).payload, last'.payload))
       => /\ Len(RowsOf(lake', SavedKey)) = Len(RowsOf(lake, SavedKey)) + 1
          /\ _payload_hash(LatestOf(lake, SavedKey).payload) # _payload_hash(last'.payload)]_vars

\* C3: for every (user_id, source, category), no two records adjacent in
\* fetched_at order carry payloads with the same fingerprint.
C3_NoAdjacentDuplicates ==
    \A i, j \in 1..Len(lake) :
        Adjacent(lake, i, j) => _payload_hash(lake[i].payload) # _payload_hash(lake[j].payload)

\* C3 witness: the key holds two adjacent records and the last call offered
\* the latest payload again and was skipped.
C3_Witness ==
    /\ \E i, j \in 1..Len(lake) : Adjacent(lake, i, j)
    /\ last.op = "save" /\ last.outcome = "skipped" /\ last.fault = "none"

\* C4: every step leaves the lake as it was or appends one record to it: no
\* record is updated or deleted.
C4_AppendOnly ==
    [][\/ lake' = lake
       \/ /\ Len(lake') = Len(lake) + 1
          /\ SubSeq(lake', 1, Len(lake)) = lake]_vars

\* C4 witness: a call has appended a record to a lake that held records of the
\* same key already.
C4_Witness ==
    /\ last.op = "save" /\ last.outcome = "inserted"
    /\ Len(RowsOf(lake, <<last.user_id, last.source, last.category>>)) >= 2

\* C5: a call in which the lookup or the insert raises returns normally and
\* leaves the lake holding exactly the records it held before.
C5_StoreFaultContained ==
    [][(ncalls' = ncalls + 1 /\ last'.fault # "none")
       => /\ last'.raised = "none"
          /\ lake' = lake]_vars

\* C5 witness: the insert of a changed payload raised, the call returned and the
\* lake holds its earlier record.
C5_Witness ==
    /\ last.op = "save" /\ last.fault = "insert" /\ last.outcome = "failed"
    /\ last.raised = "none"
    /\ RowsOf(lake, <<last.user_id, last.source, last.category>>) # <<>>
    /\ ~SameButVolatile(LatestOf(lake, <<last.user_id, last.source, last.category>>).payload,
                        last.payload)

\* C7: with a healthy store, a call for a key that holds no record, or whose
\* latest record has another fingerprint than the payload, stores one more
\* record, whatever the older records of the key are: A, B, A stores three.
C7_TriggerOnChange ==
    [][(HealthySave
        /\ \/ RowsOf(lake, SavedKey) = <<>>
           \/ _payload_hash(LatestOf(lake, SavedKey).payload) # _payload_hash(last'.payload))
       => Len(RowsOf(lake', SavedKey)) = Len(RowsOf(lake, SavedKey)) + 1]_vars

\* The calendar date in UTC+9 of an instant.
JstDateOf(instant) == (instant + JstHours * TicksPerHour) \div TicksPerDay

\* 2026-02-11T23:30:00Z
LateEvening == Day0 * TicksPerDay + 23 * TicksPerHour + TicksPerHour \div 2

\* The rows of the lake inside the window of the last read.
InWindow(i) == lake[i].fetched_at >= clock - last.days * TicksPerDay

\* The record is one of the rows of the group.
InGroup(rows, r) ==
    \E n \in 1..Len(rows) : /\ rows[n].source = r.source
                            /\ rows[n].category = r.category
                            /\ Timestamptz(rows[n].fetched_at) = r.fetched_at
                            /\ rows[n].payload = r.payload

\* C10: get_data_arrival_rich puts every record of its window in the group of
\* its source and of the calendar date of its fetched_at in UTC+9, and in no
\* other group; a record fetched at 2026-02-11T23:30:00+00:00 is in the group
\* of 2026-02-12 and not in that of 2026-02-11.
C10_ArrivalByJstDate ==
    last.op = "arrival" =>
        /\ DOMAIN last.result = DOMAIN last.buckets
        /\ \A i \in 1..Len(lake) :
               InWindow(i) =>
                   /\ <<lake[i].source, JstDateOf(lake[i].fetched_at)>> \in DOMAIN last.result
                   /\ \A key \in DOMAIN last.buckets :
                          InGroup(last.buckets[key], lake[i])
                          <=> key = <<lake[i].source, JstDateOf(lake[i].fetched_at)>>
                   /\ lake[i].fetched_at = LateEvening
                      => /\ <<lake[i].source, DaysFromCivil(2026, 2, 12)>> \in DOMAIN last.result
                         /\ \A key \in DOMAIN last.buckets :
                                key[2] = DaysFromCivil(2026, 2, 11)
                                => ~InGroup(last.buckets[key], lake[i])

\* C10 witness: the read grouped a record fetched at 2026-02-11T23:30:00+00:00,
\* whose UTC date is 2026-02-11, under 2026-02-12.
C10_Witness ==
    /\ last.op = "arrival"
    /\ \E i \in 1..Len(lake) :
           /\ InWindow(i)
           /\ lake[i].fetched_at = LateEvening
           /\ lake[i].fetched_at \div TicksPerDay = DaysFromCivil(2026, 2, 11)
           /\ <<lake[i].source, DaysFromCivil(2026, 2, 12)>> \in DOMAIN last.result
           /\ InGroup(last.buckets[<<lake[i].source, DaysFromCivil(2026, 2, 12)>>], lake[i])

Sent(kind) == Cardinality({n \in 1..Len(last.requests) : last.requests[n] = kind})

\* C26: one save_raw_data call sends at most one lookup and at most one insert
\* to the store, the lookup first, and a round trip that fails is the last one
\* of the call (it is not sent again): no call makes more than two round trips.
C26_AtMostTwoRoundTrips ==
    last.op = "save" =>
        /\ Len(last.requests) <= 2
        /\ Sent("select") <= 1
        /\ Sent("insert") <= 1
        /\ last.requests[1] = "select"
        /\ last.fault = "lookup" => last.requests = <<"select">>
        /\ last.outcome = "inserted" => last.requests = <<"select", "insert">>
        /\ last.outcome = "skipped" => last.requests = <<"select">>

\* C26 witness: a call whose insert failed has ended after its two round trips.
C26_Witness ==
    /\ last.op = "save" /\ last.fault = "insert" /\ last.outcome = "failed"
    /\ last.requests = <<"select", "insert">>

\* The lake cut down to the latest record of a key (empty when the key has none).
OnlyLatestOf(lk, key) ==
    IF RowsOf(lk, key) = <<>> THEN <<>> ELSE <<LatestOf(lk, key)>>

\* The keys that hold a record before or after the step.
KeysOf(lk) == {KeyOfRow(lk[i]) : i \in 1..Len(lk)}

MaxEdits == 1

\* One step of a path into a payload: the key of a mapping or the index of a list.
AtKey(k) == [k |-> k, i |-> 0]
AtIndex(i) == [k |-> "", i |-> i]

\* The paths to every mapping inside v, at any depth.
RECURSIVE DictPaths(_)
DictPaths(v) ==
    IF IsDict(v)
    THEN {<<>>} \cup UNION {{<<AtKey(k)>> \o p : p \in DictPaths(v.d[k])} : k \in DOMAIN v.d}
    ELSE IF IsList(v)
    THEN UNION {{<<AtIndex(i)>> \o p : p \in DictPaths(v.it[i])} : i \in 1..Len(v.it)}
    ELSE {}

\* v with key k of the mapping at path set to x (added or changed).
RECURSIVE SetAt(_, _, _, _)
SetAt(v, path, k, x) ==
    IF path = <<>> THEN Dict((k :> x) @@ v.d)
    ELSE IF IsDict(v)
    THEN Dict([v.d EXCEPT ![Head(path).k] = SetAt(@, Tail(path), k, x)])
    ELSE List([v.it EXCEPT ![Head(path).i] = SetAt(@, Tail(path), k, x)])

\* v with key k of the mapping at path removed.
RECURSIVE DelAt(_, _, _)
DelAt(v, path, k) ==
    IF path = <<>> THEN Dict([j \in DOMAIN v.d \ {k} |-> v.d[j]])
    ELSE IF IsDict(v)
    THEN Dict([v.d EXCEPT ![Head(path).k] = DelAt(@, Tail(path), k)])
    ELSE List([v.it EXCEPT ![Head(path).i] = DelAt(@, Tail(path), k)])

\* An OpenWeatherMap response.
WeatherA ==
    Dict(("main" :> Dict(("temp" :> Num(3)) @@ ("humidity" :> Num(60))))
         @@ ("weather" :> List(<<Dict(("main" :> Str(TextString("Clouds"))))>>))
         @@ ("dt" :> Num(Clock0)) @@ ("cod" :> Num(200)))
\* A Withings measure group.
WithingsA ==
    Dict(("date" :> Num(Clock0)) @@ ("created_at" :> Num(Clock0 + 1))
         @@ ("measures" :> List(<<Dict(("type" :> Num(1)) @@ ("value" :> Num(70))),
                                  Dict(("type" :> Num(6)) @@ ("value" :> Num(20)))>>)))
\* Mappings inside a list inside a list, and a payload that is a list.
NestedA == Dict(("measures" :> List(<<List(<<Dict(("value" :> Num(1)))>>)>>)))
ListA == List(<<Dict(("score" :> Num(82))), Num(5)>>)

HashPayloads == {SleepA, EnvA, WeatherA, WithingsA, NestedA, ListA}

\* The values an edit puts under a volatile key: a number, a string, and a
\* mapping with a retained key of its own.
EditValues == {Num(7), Str(TextString("now")), Dict(("score" :> Num(1)))}

\* The values a payload holds under an epoch key: before the threshold, now,
\* 9999-12-31T23:55:00Z, past the last year of datetime, and a string.
EpochValues ==
    {Num(5), Num(Clock0), Num(DatetimeEnd - 1), Num(DatetimeEnd + TicksPerDay),
     Str(TextString("soon"))}

\* The values a payload holds under an ISO key.
IsoValues ==
    {Str(IsoString(Clock0, UTC, "+hh:mm")), Str(IsoString(Clock0, UTC, "Z")),
     Str(IsoString(Clock0 + JST, JST, "+hh:mm")), Str(IsoString(Clock0, UTC, "")),
     Str(DateString(Day0)), Str(DateJunkString(Day0)),
     Str(TextString("not a date at all")), Str(ShortString("n/a")),
     Str(IsoString(DatetimeEnd - 1, UTC, "+hh:mm")), Num(Clock0)}

Range(q) == {q[i] : i \in 1..Len(q)}

\* A payload with at most one epoch field and at most one ISO field ("": none).
TimeFields(ek, ev, ik, iv) ==
    Dict((IF ek = "" THEN EmptyMap ELSE (ek :> ev))
         @@ (IF ik = "" THEN EmptyMap ELSE (ik :> iv))
         @@ ("score" :> Num(82)))

TimePayloads ==
    {TimeFields(ek, ev, ik, iv) : ek \in Range(EpochKeys) \cup {""}, ev \in EpochValues,
                                  ik \in Range(IsoKeys) \cup {""}, iv \in IsoValues}
    \cup {Dict(EmptyMap), Null, Num(5), List(<<>>), Str(TextString("payload")),
          Dict(("dt" :> Num(DatetimeEnd + TicksPerDay)) @@ ("ts" :> Num(Clock0))),
          Dict(("recorded_at" :> Str(TextString("not a date at all")))
               @@ ("day" :> Str(DateString(Day0))))}

InitFn ==
    /\ lake = <<>>
    /\ clock = Clock0
    /\ local_tz \in LocalZones
    /\ ncalls = 0
    /\ last = Idle
    /\ orch = Idle
    /\ proc = Idle
    /\ fn \in {[op |-> "payload", payload |-> p, edits |-> 0] : p \in HashPayloads}
              \cup {[op |-> "time_fields", payload |-> p] : p \in TimePayloads}

\* The fingerprints of a payload and of the payload an edit makes of it.
Edited(payload, path, key, change) ==
    [op |-> "_payload_hash", payload |-> payload, edits |-> fn.edits + 1,
     path |-> path, key |-> key, change |-> change,
     before |-> _payload_hash(fn.payload), after |-> _payload_hash(payload)]

\* _payload_hash before and after a volatile key is added to a mapping of the
\* payload or changed in it.
hash_after_set(key, value) ==
    /\ fn.op \in {"payload", "_payload_hash"}
    /\ fn.edits < MaxEdits
    /\ \E path \in DictPaths(fn.payload) :
           /\ SetAt(fn.payload, path, key, value) # fn.payload
           /\ fn' = Edited(SetAt(fn.payload, path, key, value), path, key, "set")
    /\ UNCHANGED <<lake, clock, local_tz, ncalls, last, orch, proc>>

\* _payload_hash before and after a volatile key is removed from a mapping of
\* the payload.
hash_after_del(key) ==
    /\ fn.op \in {"payload", "_payload_hash"}
    /\ fn.edits < MaxEdits
    /\ \E path \in DictPaths(fn.payload) :
           /\ DelAt(fn.payload, path, key) # fn.payload
           /\ fn' = Edited(DelAt(fn.payload, path, key), path, key, "del")
    /\ UNCHANGED <<lake, clock, local_tz, ncalls, last, orch, proc>>

\* One call of _extract_recorded_at(payload, _now_jst()).
extract_recorded_at ==
    /\ fn.op = "time_fields"
    /\ LET r == _extract_recorded_at(fn.payload, _now_jst(clock), local_tz)
       IN fn' = [op |-> "_extract_recorded_at", payload |-> fn.payload,
                 fallback |-> _now_jst(clock), exc |-> r.exc, value |-> r.value]
    /\ UNCHANGED <<lake, clock, local_tz, ncalls, last, orch, proc>>

NextFn ==
    \/ \E key \in _VOLATILE_KEYS, value \in EditValues : hash_after_set(key, value)
    \/ \E key \in _VOLATILE_KEYS : hash_after_del(key)
    \/ extract_recorded_at

SpecFn == InitFn /\ [][NextFn]_vars

\* ------------------------------------------------------------------ the pure functions: claims

\* C8: adding, changing or removing a key of the volatile set in any mapping
\* of a payload, at any depth, inside nested mappings and inside mappings that
\* are list elements, leaves _payload_hash of the payload unchanged.
C8_VolatileKeysIgnored ==
    fn.op = "_payload_hash" => fn.after = fn.before

\* C8 witness: the key cod was set in a mapping that is an element of a list
\* held by the payload's top mapping, and the payload changed.
C8_Witness ==
    /\ fn.op = "_payload_hash" /\ fn.change = "set" /\ fn.key = "cod"
    /\ Len(fn.path) = 2 /\ fn.path[1].k # "" /\ fn.path[2].i > 0
    /\ "cod" \in DOMAIN fn.payload.d[fn.path[1].k].it[fn.path[2].i].d

\* A value the epoch scan cannot use, and one the ISO scan cannot use.
EpochUnusable(v) == v.t # "num" \/ v.n <= EpochThreshold
IsoUnusable(v) == v.t # "str" \/ v.s.fmt \in {"short", "text"}

\* No candidate field of the payload holds a time.
NoCandidate(payload) ==
    \/ ~IsDict(payload)
    \/ /\ \A k \in Range(EpochKeys) : EpochUnusable(Get(payload, k))
       /\ \A k \in Range(IsoKeys) : IsoUnusable(Get(payload, k))

\* C9: for every payload, whatever its time fields hold, _extract_recorded_at
\* returns without raising, what it returns is a timestamp in UTC+9, and when
\* no candidate field holds a time it is the fallback instant.
C9_RecordedAtTotal ==
    fn.op = "_extract_recorded_at" =>
        /\ fn.exc = "none"
        /\ fn.value.fmt = "datetime" /\ fn.value.suffix = "+hh:mm" /\ fn.value.off = JST
        /\ NoCandidate(fn.payload) => fn.value = isoformat(fn.fallback)

\* The first time field of the payload that holds a time is a bare date: no
\* epoch key holds one, and the first ISO key that does holds YYYY-MM-DD.
BareDateFirst(payload) ==
    /\ IsDict(payload)
    /\ \A k \in Range(EpochKeys) : EpochUnusable(Get(payload, k))
    /\ \E i \in 1..Len(IsoKeys) :
           /\ Get(payload, IsoKeys[i]).t = "str"
           /\ Get(payload, IsoKeys[i]).s.fmt = "date"
           /\ \A j \in 1..(i - 1) : IsoUnusable(Get(payload, IsoKeys[j]))
BareDate(payload) ==
    LET i == CHOOSE n \in 1..Len(IsoKeys) :
                 /\ Get(payload, IsoKeys[n]).t = "str"
                 /\ Get(payload, IsoKeys[n]).s.fmt = "date"
                 /\ \A j \in 1..(n - 1) : IsoUnusable(Get(payload, IsoKeys[j]))
    IN Get(payload, IsoKeys[i]).s.lt \div TicksPerDay

\* C22: for a payload whose first usable time field is a bare YYYY-MM-DD
\* string, _extract_recorded_at returns that date at 00:00 in UTC+9, whatever
\* the zone of the machine.
C22_BareDateAtJstMidnight ==
    (fn.op = "_extract_recorded_at" /\ BareDateFirst(fn.payload))
    => /\ fn.exc = "none"
       /\ fn.value = IsoString(BareDate(fn.payload) * TicksPerDay, JST, "+hh:mm")

\* ------------------------------------------------------------------ the orchestrators

\* The sources in the order each orchestrator runs them.
SourceOrder(entry) ==
    IF entry = "run_all_fetchers"
    THEN <<"oura", "withings", "weather", "switchbot", "google_fit">>
    ELSE <<"withings", "oura", "weather", "google_fit", "switchbot">>

Entries == {"run_all_fetchers", "refresh_data"}

\* Whether a step of a source's block runs inside the try statement of that
\* source.  run_all_fetchers wraps every block whole; refresh_data builds the
\* Withings client and asks is_authenticated() before the try of the block.
Guarded(entry, source, step) ==
    ~(entry = "refresh_data" /\ source = "withings" /\ step = "credential")

\* The run when it enters the first block.
Begin(entry) ==
    [op |-> "run", entry |-> entry, i |-> 1, step |-> "credential",
     attempted |-> {}, outcome |-> [src \in {} |-> "none"], ended |-> FALSE,
     error |-> "none"]

Source(o) == SourceOrder(o.entry)[o.i]

\* The run after the block of the current source ended with result.
Advance(o, result) ==
    [o EXCEPT !.outcome = (Source(o) :> result) @@ @,
              !.i = @ + 1,
              !.step = "credential",
              !.ended = (o.i = Len(SourceOrder(o.entry)))]

\* An exception raised in the current step: the except clause of the block
\* takes it if the step is inside the block's try, else it leaves the block
\* and ends the run (in refresh_data, in the except clause of the function).
Raise(o) ==
    IF Guarded(o.entry, Source(o), o.step) THEN Advance(o, "failed")
    ELSE [o EXCEPT !.outcome = (Source(o) :> "failed") @@ @,
                   !.ended = TRUE,
                   !.error = "top-level"]

Running == orch.op = "run" /\ ~orch.ended

\* The block builds its client and asks whether the source is configured.
credential_check(result) ==
    /\ Running /\ orch.step = "credential"
    /\ LET o == [orch EXCEPT !.attempted = @ \cup {Source(orch)}]
       IN orch' = CASE result = "ok" -> [o EXCEPT !.step = "fetch"]
                    [] result = "missing" -> Advance(o, "skipped")
                    [] OTHER -> Raise(o)
    /\ UNCHANGED <<lake, clock, local_tz, ncalls, last, fn, proc>>

\* The fetcher's request to the provider.
fetch_data(result) ==
    /\ Running /\ orch.step = "fetch"
    /\ orch' = IF result = "ok" THEN [orch EXCEPT !.step = "ingest"] ELSE Raise(orch)
    /\ UNCHANGED <<lake, clock, local_tz, ncalls, last, fn, proc>>

\* The loop that stores the fetched records.
ingest(result) ==
    /\ Running /\ orch.step = "ingest"
    /\ orch' = IF result = "ok" THEN Advance(orch, "saved") ELSE Raise(orch)
    /\ UNCHANGED <<lake, clock, local_tz, ncalls, last, fn, proc>>

InitOrch ==
    /\ lake = <<>>
    /\ clock = Clock0
    /\ local_tz \in LocalZones
    /\ ncalls = 0
    /\ last = Idle
    /\ fn = Idle
    /\ proc = Idle
    /\ orch \in {Begin(entry) : entry \in Entries}

NextOrch ==
    \/ \E result \in {"ok", "missing", "raise"} : credential_check(result)
    \/ \E result \in {"ok", "raise"} : fetch_data(result)
    \/ \E result \in {"ok", "raise"} : ingest(result)

SpecOrch == InitOrch /\ [][NextOrch]_vars

\* C6: in a run of run_all_fetchers or of refresh_data, whatever fails in a
\* source's credential check, fetch or ingest, every source has been attempted
\* when the run ends.
C6_EverySourceAttempted ==
    (orch.op = "run" /\ orch.ended) => orch.attempted = Range(SourceOrder(orch.entry))

\* ------------------------------------------------------------------ the reads

MaxRecords == 3

\* Time between two ingests of a feed.
ReadSteps == {TicksPerHour, TicksPerDay}

\* The Oura daily_sleep item of the next day.
SleepNext ==
    Dict([SleepA.d EXCEPT !["day"] = Str(DateString(Day0 + 1)), !["score"] = Num(90)])
\* The item of another user.
OtherSleep == <<"user_002", "oura", "sleep">>
SleepOther == Dict([SleepA.d EXCEPT !["score"] = Num(60)])

\* Two readings of the indoor sensor.
EnvWarm == Dict(("temperature" :> Real(225)) @@ ("humidity" :> Num(48)) @@ ("CO2" :> Num(900)))
EnvWarmer == Dict(("temperature" :> Real(231)) @@ ("humidity" :> Num(50)) @@ ("CO2" :> Num(950)))

\* What the fetchers deliver in one scenario: calls (key, payload).
NightFeed ==
    {<<OuraSleep, SleepA>>, <<OuraSleep, SleepNext>>, <<OtherSleep, SleepOther>>,
     <<SwitchBotEnv, EnvWarm>>, <<SwitchBotEnv, EnvWarmer>>}

\* Withings measure groups: a weighing of the morning (72.5 kg), one of the
\* evening (73.1 kg), and a group without weight (type 9, a blood pressure).
WithingsMeasure == <<"user_001", "withings", "measure">>
Measure(type, value, unit) ==
    Dict(("type" :> Num(type)) @@ ("value" :> Num(value)) @@ ("unit" :> Num(unit)))
WeighMorning ==
    Dict(("date" :> Num(Clock0 - 16 * TicksPerHour))
         @@ ("measures" :> List(<<Measure(1, 72500, -3)>>)))
WeighEvening ==
    Dict(("date" :> Num(Clock0 - 4 * TicksPerHour))
         @@ ("measures" :> List(<<Measure(1, 73100, -3)>>)))
Pressure ==
    Dict(("date" :> Num(Clock0 - 2 * TicksPerHour))
         @@ ("measures" :> List(<<Measure(9, 80, 0)>>)))

WeightFeed ==
    {<<WithingsMeasure, WeighMorning>>, <<WithingsMeasure, WeighEvening>>,
     <<WithingsMeasure, Pressure>>}

Feeds == {NightFeed, WeightFeed}

CorrelationDays == {1, 14}

\* The dates and the users get_raw_data_by_date is asked for.
TargetDates == {Day0, Day0 + 1}
Users == {"user_001", "user_002"}

\* The lakes that up to n healthy save_raw_data calls of a feed leave, with the
\* wall clock at the last call.
RECURSIVE RunsOf(_, _, _)
RunsOf(feed, n, local) ==
    IF n = 0 THEN {[lake |-> <<>>, clock |-> Clock0, n |-> 0]}
    ELSE LET prev == RunsOf(feed, n - 1, local)
         IN prev \cup
            {[lake |-> SaveRawData(r.lake, inp[1][1], inp[1][2], inp[1][3], inp[2],
                                   "none", r.clock + step, local).lake,
              clock |-> r.clock + step,
              n |-> r.n + 1] : r \in {q \in prev : q.n = n - 1}, inp \in feed, step \in ReadSteps}

InitRead ==
    /\ local_tz \in LocalZones
    /\ \E feed \in Feeds :
           \E r \in RunsOf(feed, MaxRecords, local_tz) :
               /\ lake = r.lake
               /\ clock = r.clock
               /\ ncalls = r.n
    /\ last = Idle
    /\ orch = Idle
    /\ fn = Idle
    /\ proc = Idle

\* The footprint section of the page: the arrival read of the last 30 days,
\* cut to the 7 latest dates with data, rendered as the table of 7 days.
render_footprint ==
    /\ last' = [op |-> "footprint",
                grid |-> build_footprint_html(
                             RecentHistory(ArrivalRich(lake, clock, FootprintWindow)),
                             FootprintDays, date_today(clock, local_tz))]
    /\ UNCHANGED <<lake, clock, local_tz, ncalls, orch, fn, proc>>

\* get_correlation_data(days)
get_correlation_data(days) ==
    /\ last' = [op |-> "correlation", days |-> days,
                rows |-> CorrelationData(lake, clock, days)]
    /\ UNCHANGED <<lake, clock, local_tz, ncalls, orch, fn, proc>>

\* get_raw_data_by_date(target_date, user_id)
get_raw_data_by_date(target_date, user_id) ==
    /\ last' = [op |-> "by_date", target_date |-> target_date, user_id |-> user_id,
                result |-> RawDataByDate(lake, target_date, user_id)]
    /\ UNCHANGED <<lake, clock, local_tz, ncalls, orch, fn, proc>>

NextRead ==
    \/ render_footprint
    \/ \E target_date \in TargetDates, user_id \in Users :
           get_raw_data_by_date(target_date, user_id)
    \/ \E days \in CorrelationDays : get_correlation_data(days)
    \/ \E days \in ArrivalDays : get_data_arrival_rich(days)

SpecRead == InitRead /\ [][NextRead]_vars

\* ------------------------------------------------------------------ concurrent ingests
\* Two processes call save_raw_data with the same arguments.  A call is three
\* steps: the lookup round trip, the reading of the wall clock, the insert
\* round trip; the steps of the two calls interleave in any way and the wall
\* clock may or may not advance between two steps.

Procs == {1, 2}
MaxPrior == 2
MaxTicks == 2

PriorFeed == {<<OuraSleep, SleepA>>, <<OuraSleep, SleepB>>, <<SwitchBotEnv, EnvWarm>>}

\* The payload is not the one of the latest row of its key.
IsNew(lk, inp) ==
    LET existing == SelectLatest(lk, inp[1][1], inp[1][2], inp[1][3])
    IN IF existing = <<>> THEN TRUE
       ELSE _payload_hash(inp[2]) # _payload_hash(existing[1].payload)

InitConc ==
    /\ local_tz \in LocalZones
    /\ \E r \in RunsOf(PriorFeed, MaxPrior, local_tz), inp \in PriorFeed, step \in ReadSteps :
           /\ IsNew(r.lake, inp)
           /\ lake = r.lake
           /\ clock = r.clock + step
           /\ ncalls = r.n
           /\ proc = [op |-> "ingest", call |-> inp, before |-> r.lake, ticks |-> 0,
                      at |-> [p \in Procs |-> [pc |-> "lookup", now |-> 0, outcome |-> "none"]]]
    /\ last = Idle
    /\ orch = Idle
    /\ fn = Idle

\* existing = ...select("id, payload")...limit(1).execute(), and the comparison
\* of the two hashes.
lookup(p) ==
    /\ proc.at[p].pc = "lookup"
    /\ LET existing == SelectLatest(lake, proc.call[1][1], proc.call[1][2], proc.call[1][3])
           same == /\ existing # <<>>
                   /\ _payload_hash(proc.call[2]) = _payload_hash(existing[1].payload)
       IN proc' = [proc EXCEPT !.at[p].pc = IF same THEN "done" ELSE "now",
                               !.at[p].outcome = IF same THEN "skipped" ELSE "none"]
    /\ UNCHANGED <<lake, clock, local_tz, ncalls, last, orch, fn>>

\* now = _now_jst()
read_now(p) ==
    /\ proc.at[p].pc = "now"
    /\ proc' = [proc EXCEPT !.at[p].pc = "insert", !.at[p].now = clock]
    /\ UNCHANGED <<lake, clock, local_tz, ncalls, last, orch, fn>>

\* recorded_at = _extract_recorded_at(...); ...insert(data).execute(), inside
\* the try of save_raw_data.
insert(p) ==
    /\ proc.at[p].pc = "insert"
    /\ LET now == _now_jst(proc.at[p].now)
           recorded_at == _extract_recorded_at(proc.call[2], now, local_tz)
           ins == StoreInsert(lake, [user_id |-> proc.call[1][1],
                                     fetched_at |-> isoformat(now),
                                     recorded_at |-> recorded_at.value,
                                     source |-> proc.call[1][2],
                                     category |-> proc.call[1][3],
                                     payload |-> proc.call[2]])
           r == IF recorded_at.exc # "none" THEN Thrown(lake, recorded_at.exc)
                ELSE IF ins.exc # "none" THEN Thrown(lake, ins.exc)
                ELSE Ended(ins.lake, "inserted")
       IN /\ lake' = r.lake
          /\ proc' = [proc EXCEPT !.at[p].pc = "done", !.at[p].outcome = r.outcome]
    /\ UNCHANGED <<clock, local_tz, ncalls, last, orch, fn>>

\* The wall clock advances while a call is under way.
tick ==
    /\ proc.ticks < MaxTicks
    /\ \E p \in Procs : proc.at[p].pc # "done"
    /\ clock' = clock + 1
    /\ proc' = [proc EXCEPT !.ticks = proc.ticks + 1]
    /\ UNCHANGED <<lake, local_tz, ncalls, last, orch, fn>>

NextConc ==
    \/ \E p \in Procs : lookup(p)
    \/ \E p \in Procs : read_now(p)
    \/ \E p \in Procs : insert(p)
    \/ tick

SpecConc == InitConc /\ [][NextConc]_vars

\* ------------------------------------------------------------------ concurrent ingests: claims

BothDone == \A p \in Procs : proc.at[p].pc = "done"
Gained == Len(lake) - Len(proc.before)

KnownSources == {"oura", "withings", "google_fit", "weather", "switchbot"}

\* C11: the footprint grid built from the arrival read has one cell, filled
\* or empty, for every known source and every one of the trailing 7 calendar
\* dates (in UTC+9, the zone of every date grouping), and no other cell, also
\* when the lake holds no record in the window.
C11_GridCoversTrailingDates ==
    last.op = "footprint" =>
        /\ DOMAIN last.grid.cells =
               {<<src, d>> : src \in KnownSources,
                             d \in (JstDateOf(clock) - 6)..JstDateOf(clock)}
        /\ last.grid.total_cells = 35

\* The sleep records and the environmental records inside the window of the
\* last read, and the dates they stand for: the day of a sleep item, the date
\* in UTC+9 at which a sensor reading was fetched.
SleepRecords ==
    {i \in 1..Len(lake) : lake[i].source = "oura" /\ lake[i].category = "sleep" /\ InWindow(i)}
EnvRecords ==
    {i \in 1..Len(lake) :
        lake[i].source = "switchbot" /\ lake[i].category = "environment" /\ InWindow(i)}
SleepDay(i) == lake[i].payload.d["day"].s.lt \div TicksPerDay
SleepDays == {SleepDay(i) : i \in SleepRecords}
EnvDays == {JstDateOf(lake[i].fetched_at) : i \in EnvRecords}
RowDay(row) == row.date.lt \div TicksPerDay
Averages(row) == {row.co2_avg, row.temp_avg, row.humidity_avg}

GroupOf(key) ==
    {i \in 1..Len(lake) : /\ InWindow(i)
                          /\ lake[i].source = key[1]
                          /\ JstDateOf(lake[i].fetched_at) = key[2]}
SensorKey(field) ==
    IF field = "temp" THEN "temperature" ELSE IF field = "co2" THEN "CO2" ELSE field
Sampled(key, field) ==
    {i \in GroupOf(key) : SensorKey(field) \in DOMAIN lake[i].payload.d}
Sample(i, field) == Tenths(lake[i].payload.d[SensorKey(field)])
RECURSIVE SampleSum(_, _)
SampleSum(I, field) ==
    IF I = {} THEN 0
    ELSE LET i == CHOOSE x \in I : TRUE
         IN Sample(i, field) + SampleSum(I \ {i}, field)

Without(lk, user_id) == SelectSeq(lk, LAMBDA row : row.user_id # user_id)

\* C14: the arrival read and the correlation read made for user_001 depend
\* only on that user's records: with the records that carry the user_id of
\* another user (user_002) removed from the lake, they return the same cells
\* and the same rows.
C14_ReadsScopedToUser ==
    /\ last.op = "arrival"
       => last.result = ArrivalRich(Without(lake, "user_002"), clock, last.days)
    /\ last.op = "correlation"
       => last.rows = CorrelationData(Without(lake, "user_002"), clock, last.days)

\* The record is listed under the source in the result of the last by-date read.
ListedUnder(source, i) ==
    /\ source \in DOMAIN last.result
    /\ \E n \in 1..Len(last.result[source]) : last.result[source][n].id = lake[i].id

\* C15: get_raw_data_by_date(D, u) returns exactly the records of user u whose
\* fetched_at falls on the calendar date D in UTC+9, each under its own source
\* and under no other: none of them is missing, no other record is included.
C15_ByDateExact ==
    last.op = "by_date" =>
        \A i \in 1..Len(lake) :
            /\ ListedUnder(lake[i].source, i)
               <=> /\ lake[i].user_id = last.user_id
                   /\ JstDateOf(lake[i].fetched_at) = last.target_date
            /\ \A source \in DOMAIN last.result :
                   ListedUnder(source, i) => source = lake[i].source

\* The record of a set of lake places that was fetched last.
LastFetched(I) == CHOOSE i \in I : \A j \in I : lake[j].fetched_at <= lake[i].fetched_at

\* The sleep records with a score in a group.
Scored(key) ==
    {i \in GroupOf(key) : lake[i].category = "sleep" /\ "score" \in DOMAIN lake[i].payload.d}

\* C19: when an Oura group holds several sleep records with a score, the badge
\* sleep_score that get_data_arrival_rich returns for the group is the score of
\* the record with the latest fetched_at.
C19_BadgeOfLatestRecord ==
    last.op = "arrival" =>
        \A key \in DOMAIN last.result :
            (key[1] = "oura" /\ Scored(key) # {})
            => last.result[key].badge["sleep_score"]
                   = lake[LastFetched(Scored(key))].payload.d["score"]

\* The valid weight measurements of a Withings group: (record, measure) with
\* type 1 and a positive value; the time of a measurement is the date of its
\* measure group.
Weighings(key) ==
    UNION {{<<i, n>> : n \in {k \in 1..Len(lake[i].payload.d["measures"].it) :
                                /\ lake[i].payload.d["measures"].it[k].d["type"] = Num(1)
                                /\ lake[i].payload.d["measures"].it[k].d["value"].n > 0}} :
           i \in {j \in GroupOf(key) : "measures" \in DOMAIN lake[j].payload.d}}
MeasuredAt(w) == lake[w[1]].payload.d["date"].n
Kilograms(w) ==
    LET m == lake[w[1]].payload.d["measures"].it[w[2]]
    IN Real(ScaledTenths(m.d["value"].n, m.d["unit"].n))

\* C20: for a Withings group with several valid weight measurements, the badge
\* weight_kg that get_data_arrival_rich returns is the weight of the
\* measurement taken last.
C20_WeightOfLastMeasurement ==
    last.op = "arrival" =>
        \A key \in DOMAIN last.result :
            (key[1] = "withings" /\ Weighings(key) # {})
            => \E w \in Weighings(key) :
                   /\ \A v \in Weighings(key) : MeasuredAt(v) <= MeasuredAt(w)
                   /\ last.result[key].badge["weight_kg"] = Kilograms(w)

\* The sleep records of the window whose day is d.
SleepOn(d) == {i \in SleepRecords : SleepDay(i) = d}

\* C23: get_correlation_data returns at most one row per date, the rows in
\* strictly ascending order of date, and when several sleep records have the
\* same date the row of the date carries the score of the one fetched last.
C23_OneRowPerDateLastWins ==
    last.op = "correlation" =>
        /\ \A n \in 1..(Len(last.rows) - 1) : RowDay(last.rows[n]) < RowDay(last.rows[n + 1])
        /\ \A n \in 1..Len(last.rows) :
               LET on == SleepOn(RowDay(last.rows[n]))
               IN /\ on # {}
                  /\ last.rows[n].sleep_score = lake[LastFetched(on)].payload.d["score"].n

\* C23 witness: two sleep records of one date with different scores were in
\* the window, and the result has rows of two dates.
C23_Witness ==
    /\ last.op = "correlation"
    /\ Len(last.rows) = 2
    /\ \E i, j \in SleepRecords :
           /\ SleepDay(i) = SleepDay(j)
           /\ lake[i].fetched_at < lake[j].fetched_at
           /\ lake[i].payload.d["score"] # lake[j].payload.d["score"]
           /\ \E n \in 1..2 : /\ RowDay(last.rows[n]) = SleepDay(j)
                              /\ last.rows[n].sleep_score = lake[j].payload.d["score"].n

\* ------------------------------------------------------------------ the correlation read over any table
\* get_correlation_data reads whatever rows the table holds.  The Oura fetcher
\* stores only items that carry a day; a sleep row without one comes from a
\* direct call of save_raw_data.

\* A sleep item without day, and one that gives its date in the key date.
SleepNoDay == Dict(("score" :> Num(80)) @@ ("contributors" :> Dict(("deep_sleep" :> Num(70)))))
SleepDated == Dict(("score" :> Num(77)) @@ ("date" :> Str(DateString(Day0 + 1))))

TableFeed ==
    {<<OuraSleep, SleepNoDay>>, <<OuraSleep, SleepDated>>, <<OuraSleep, SleepB>>,
     <<SwitchBotEnv, EnvWarm>>}

InitTable ==
    /\ local_tz \in LocalZones
    /\ \E r \in RunsOf(TableFeed, MaxRecords, local_tz) :
           /\ lake = r.lake
           /\ clock = r.clock
           /\ ncalls = r.n
    /\ last = Idle
    /\ orch = Idle
    /\ fn = Idle
    /\ proc = Idle

NextTable == \E days \in CorrelationDays : get_correlation_data(days)

SpecTable == InitTable /\ [][NextTable]_vars

\* The sleep records of the window with a score and without day.
Dayless == {i \in SleepRecords : "day" \notin DOMAIN lake[i].payload.d
                                 /\ "score" \in DOMAIN lake[i].payload.d}

\* C21: a sleep record whose payload has no day is keyed, in the result of
\* get_correlation_data, by the calendar date of its recorded_at in UTC+9, the
\* convention of the environmental records: the result has a row of that date.
C21_FallbackDateInJst ==
    last.op = "correlation" =>
        \A i \in Dayless :
            \E n \in 1..Len(last.rows) : RowDay(last.rows[n]) = JstDateOf(lake[i].recorded_at)

\* ------------------------------------------------------------------ the arrival read of payloads without a scalar

\* What the vendors deliver when the expected field is missing: an Oura
\* daily_sleep item without a score, one whose contributors are null, a SwitchBot
\* device status without readings, a Withings group without a weight (Pressure),
\* and the raw Google Fit aggregate the fetcher stores under "steps".
GoogleFitSteps == <<"user_001", "google_fit", "steps">>
SleepPending == Dict(("day" :> Str(DateString(Day0))))
SleepNoContributors == Dict(("day" :> Str(DateString(Day0))) @@ ("contributors" :> Null))
EnvIdle == Dict(("power" :> Str(TextString("on"))))
StepsResponse == Dict(("bucket" :> List(<<>>)))

BareFeed ==
    {<<OuraSleep, SleepPending>>, <<OuraSleep, SleepNoContributors>>, <<SwitchBotEnv, EnvIdle>>,
     <<WithingsMeasure, Pressure>>, <<GoogleFitSteps, StepsResponse>>}

InitBare ==
    /\ local_tz \in LocalZones
    /\ \E r \in RunsOf(BareFeed, MaxRecords, local_tz) :
           /\ lake = r.lake
           /\ clock = r.clock
           /\ ncalls = r.n
    /\ last = Idle
    /\ orch = Idle
    /\ fn = Idle
    /\ proc = Idle

NextBare == \E days \in ArrivalDays : get_data_arrival_rich(days)

SpecBare == InitBare /\ [][NextBare]_vars

\* The (source, date) groups of the window of the last read that hold a record.
GroupsWithRecord ==
    {<<lake[i].source, JstDateOf(lake[i].fetched_at)>> : i \in {j \in 1..Len(lake) : InWindow(j)}}

\* C25: get_data_arrival_rich raises no error for payloads from which no scalar
\* can be extracted; every (source, date) group with at least one record in the
\* window is reported with has_data = true, with an empty badge or an empty
\* summary when no payload of the group has a scalar, and a (source, date)
\* without a record is not reported.
C25_PresenceWithoutScalar ==
    last.op = "arrival" =>
        /\ ~last.raised
        /\ DOMAIN last.result = GroupsWithRecord
        /\ \A key \in DOMAIN last.result :
               /\ last.result[key].has_data
               /\ key[1] = "switchbot" => last.result[key].summary = EmptyMap
               /\ key[1] # "switchbot" => last.result[key].badge = EmptyMap

\* ------------------------------------------------------------------ fetch cycles

\* A fetch cycle polls the vendor and hands every item of the response to
\* save_raw_data, in the order of the response (_save_to_data_lake); the next
\* cycle polls again and, the vendor's data being unchanged, hands over the same
\* items in the same order.
MaxPasses == 3
MaxFaults == 1

\* An Oura item whose day is a timestamp of the last hour of year 9999.
SleepLate ==
    Dict(("day" :> Str(IsoString(DatetimeEnd - TicksPerHour, UTC, "+hh:mm")))
         @@ ("score" :> Num(82)))

\* The responses: the daily sleep items of two days, two Withings measure
\* groups, one sleep item, and the item of year 9999.
Responses ==
    {[key |-> OuraSleep, items |-> <<SleepA, SleepNext>>],
     [key |-> WithingsMeasure, items |-> <<WeighMorning, WeighEvening>>],
     [key |-> OuraSleep, items |-> <<SleepA>>],
     [key |-> OuraSleep, items |-> <<SleepLate>>]}

\* The fetcher passes an item on: Oura only items with a day, Withings all.
PassedOn(key, item) == key[2] = "oura" => Get(item, "day") # Null

InitCycle ==
    /\ lake = <<>>
    /\ clock = Clock0
    /\ local_tz \in LocalZones
    /\ ncalls = 0
    /\ last = Idle
    /\ \E response \in Responses :
           orch = [op |-> "cycle", response |-> response, pos |-> 1, pass |-> 1,
                   faults |-> 0, abandoned |-> {}]
    /\ fn = Idle
    /\ proc = Idle

\* One turn of the loop of _save_to_data_lake: the item at pos is handed to
\* save_raw_data.  The store fails in at most MaxFaults calls, none of them in
\* the last pass; abandoned keeps the places of the items whose call a store
\* fault ended.
_save_to_data_lake(fault, step) ==
    /\ orch.pos <= Len(orch.response.items)
    /\ PassedOn(orch.response.key, orch.response.items[orch.pos])
    /\ fault # "none" => (orch.faults < MaxFaults /\ orch.pass < MaxPasses)
    /\ LET key == orch.response.key
           item == orch.response.items[orch.pos]
           r == SaveRawData(lake, key[1], key[2], key[3], item, fault, clock + step, local_tz)
       IN /\ lake' = r.lake
          /\ last' = [op |-> "save", user_id |-> key[1], source |-> key[2],
                      category |-> key[3], payload |-> item, fault |-> fault,
                      outcome |-> r.outcome, raised |-> r.raised,
                      requests |-> StoreRequests(lake, key[1], key[2], key[3], item,
                                                 fault, clock + step, local_tz)]
          /\ orch' = [orch EXCEPT !.pos = @ + 1,
                                  !.faults = IF fault # "none" THEN @ + 1 ELSE @,
                                  !.abandoned = IF fault # "none" /\ r.lake = lake
                                                   /\ r.outcome = "failed"
                                                THEN @ \cup {orch.pos} ELSE @]
    /\ clock' = clock + step
    /\ ncalls' = ncalls + 1
    /\ UNCHANGED <<local_tz, fn, proc>>

\* The next scheduled cycle: the same response, from its first item.
next_cycle ==
    /\ orch.pos > Len(orch.response.items)
    /\ orch.pass < MaxPasses
    /\ orch' = [orch EXCEPT !.pos = 1, !.pass = @ + 1]
    /\ UNCHANGED <<lake, clock, local_tz, ncalls, last, fn, proc>>

NextCycle ==
    \/ \E fault \in Faults, step \in ClockSteps : _save_to_data_lake(fault, step)
    \/ next_cycle

SpecCycle == InitCycle /\ [][NextCycle]_vars

\* A record of the key of the response carries the fingerprint of the item.
InLake(lk, item) ==
    \E i \in 1..Len(lk) :
        /\ KeyOfRow(lk[i]) = orch.response.key
        /\ _payload_hash(lk[i].payload) = _payload_hash(item)

\* This step hands the item at pos to save_raw_data with a healthy store.
HealthyOffer == orch'.pos = orch.pos + 1 /\ last'.fault = "none"

\* C27: an item whose ingestion a store fault has ended is stored by a later
\* call that offers it with a healthy store, unless the latest record of its
\* key has its fingerprint already: after that call the latest record of the
\* key carries the fingerprint of the item.
C27_StoredOnceHealthy ==
    [][(HealthyOffer /\ orch.pos \in orch.abandoned)
       => /\ RowsOf(lake', orch.response.key) # <<>>
          /\ _payload_hash(LatestOf(lake', orch.response.key).payload)
                 = _payload_hash(orch.response.items[orch.pos])]_vars

\* Every pass has run to its end, the last one with a healthy store.
CyclesDone == orch.pass = MaxPasses /\ orch.pos > Len(orch.response.items)

\* When the passes are over, every abandoned item is in the lake.
AbandonedInLake ==
    CyclesDone => \A n \in orch.abandoned : InLake(lake, orch.response.items[n])

\* C28: a cycle that runs again on an unchanged response adds no record: when
\* every call so far met a healthy store, each call of the second and of every
\* later pass leaves the lake as it was, the item being skipped as a duplicate.
C28_SecondPassAddsNothing ==
    [][(HealthyOffer /\ orch.pass >= 2 /\ orch.faults = 0)
       => lake' = lake]_vars

\* ------------------------------------------------------------------ the Withings token

\* self.tokens is a mapping from the names of its fields to JSON values, empty
\* when no token is stored.  Durations are in ticks of five minutes.
MaxTokenCalls == 3
\* timedelta(minutes=5)
FiveMinutes == 300 \div SecondsPerTick
\* body.get("expires_in", 10800)
DefaultExpiresIn == 10800 \div SecondsPerTick

AccessToken(x) == Str(ShortString(x))
TokenGet(tokens, k) == IF k \in DOMAIN tokens THEN tokens[k] ELSE Null

\* now + timedelta(...)
Plus(dt, delta) == Datetime(dt.lt + delta, dt.off, dt.aware)

\* What the token endpoint answers to a refresh: the request fails (a
\* connection error or raise_for_status), the answer has a status other than
\* 0, or it has status 0 and a body.
RefreshAnswers ==
    {[kind |-> "http_error"], [kind |-> "status_error"]}
    \cup {[kind |-> "ok",
           body |-> ("access_token" :> AccessToken("new")) @@ ("refresh_token" :> AccessToken("r2"))
                    @@ e] :
             e \in {EmptyMap, ("expires_in" :> Num(FiveMinutes)),
                    ("expires_in" :> Num(DefaultExpiresIn))}}

\* refresh_access_token() at now: [exc, tokens], tokens being self.tokens after
\* the call.
refresh_access_token(tokens, now, answer) ==
    IF TokenGet(tokens, "refresh_token") = Null
    THEN [exc |-> "Exception", tokens |-> tokens]
    ELSE IF answer.kind # "ok"
    THEN [exc |-> "Exception", tokens |-> tokens]
    ELSE LET body == answer.body
             expires_in == IF "expires_in" \in DOMAIN body THEN body["expires_in"].n
                           ELSE DefaultExpiresIn
         IN [exc |-> "none",
             tokens |-> ("access_token" :> TokenGet(body, "access_token"))
                        @@ ("refresh_token" :> TokenGet(body, "refresh_token"))
                        @@ ("expires_in" :> TokenGet(body, "expires_in"))
                        @@ ("created_at" :> Str(isoformat(now)))
                        @@ ("expires_at" :> Str(isoformat(Plus(now, expires_in))))]

\* A call that returns the stored access token without a look at its expiry.
get_stored_access_token(tokens, now, answer) ==
    [exc |-> "none", value |-> TokenGet(tokens, "access_token"), tokens |-> tokens,
     refreshed |-> FALSE, refresh_failed |-> FALSE]

\* get_valid_access_token() at now: the value returned, self.tokens after the
\* call, whether a refresh succeeded and whether one failed in the call.  An
\* aware now cannot be compared with a naive expires_at (TypeError).
get_valid_access_token(tokens, now, answer) ==
    LET none(failed) == [exc |-> "none", value |-> Null, tokens |-> tokens,
                         refreshed |-> FALSE, refresh_failed |-> failed]
        expires_at == TokenGet(tokens, "expires_at")
    IN IF tokens = EmptyMap THEN none(FALSE)
       ELSE IF expires_at = Null
       THEN [exc |-> "none", value |-> TokenGet(tokens, "access_token"), tokens |-> tokens,
             refreshed |-> FALSE, refresh_failed |-> FALSE]
       ELSE LET parsed == fromisoformat(expires_at.s)
            IN IF parsed.exc # "none"
               THEN [none(FALSE) EXCEPT !.exc = parsed.exc]
               ELSE IF ~parsed.dt.aware
               THEN [none(FALSE) EXCEPT !.exc = "TypeError"]
               ELSE IF Instant(now, UTC) >= Instant(Plus(parsed.dt, -FiveMinutes), UTC)
               THEN LET r == refresh_access_token(tokens, now, answer)
                    IN IF r.exc # "none" THEN none(TRUE)
                       ELSE [exc |-> "none", value |-> TokenGet(r.tokens, "access_token"),
                             tokens |-> r.tokens, refreshed |-> TRUE,
                             refresh_failed |-> FALSE]
               ELSE [exc |-> "none", value |-> TokenGet(tokens, "access_token"),
                     tokens |-> tokens, refreshed |-> FALSE, refresh_failed |-> FALSE]

\* The tokens the store holds when a run begins: none, or the tokens an earlier
\* exchange or refresh wrote, expiring some time before or after 2026-02-11T14:30Z;
\* one of them without a refresh token, one without expires_at.
StoredToken(expires) ==
    ("access_token" :> AccessToken("old")) @@ ("refresh_token" :> AccessToken("r1"))
    @@ ("expires_at" :> Str(isoformat(Plus(_now_jst(Clock0), expires))))
StoredTokens ==
    {EmptyMap,
     ("access_token" :> AccessToken("old")) @@ ("refresh_token" :> AccessToken("r1")),
     [StoredToken(2) EXCEPT !["refresh_token"] = Null]}
    \cup {StoredToken(e) : e \in {-DefaultExpiresIn, 1, 2, 3, 4, DefaultExpiresIn}}
TokenSteps == {1, 2}

InitToken ==
    /\ lake = <<>>
    /\ clock = Clock0
    /\ local_tz \in LocalZones
    /\ ncalls = 0
    /\ last = Idle
    /\ \E tokens \in StoredTokens : orch = [op |-> "oauth", tokens |-> tokens]
    /\ fn = Idle
    /\ proc = Idle

\* What a call of get_valid_access_token leaves in last: the tokens and the
\* clock it met and what it did.
TokenCall(op, r) ==
    [op |-> op, before |-> orch.tokens, now |-> clock', exc |-> r.exc, value |-> r.value,
     refreshed |-> r.refreshed, refresh_failed |-> r.refresh_failed,
     authenticated |-> r.value # Null,
     withings |-> IF op = "block" THEN (IF r.exc # "none" THEN "failed"
                                        ELSE IF r.value # Null THEN "fetched" ELSE "skipped")
                  ELSE "none"]

\* One call of WithingsOAuth.get_valid_access_token.
valid_access_token(answer, step) ==
    /\ ncalls < MaxTokenCalls
    /\ clock' = clock + step
    /\ LET r == get_valid_access_token(orch.tokens, _now_jst(clock + step), answer)
       IN /\ orch' = [orch EXCEPT !.tokens = r.tokens]
          /\ last' = TokenCall("token", r)
    /\ ncalls' = ncalls + 1
    /\ UNCHANGED <<lake, local_tz, fn, proc>>

\* The Withings block of run_all_fetchers: the source is fetched when
\* is_authenticated() is true and skipped when it is not; an exception ends the
\* block in its except clause.
withings_block(answer, step) ==
    /\ ncalls < MaxTokenCalls
    /\ clock' = clock + step
    /\ LET r == get_valid_access_token(orch.tokens, _now_jst(clock + step), answer)
       IN /\ orch' = [orch EXCEPT !.tokens = r.tokens]
          /\ last' = TokenCall("block", r)
    /\ ncalls' = ncalls + 1
    /\ UNCHANGED <<lake, local_tz, fn, proc>>

NextToken ==
    \/ \E answer \in RefreshAnswers, step \in TokenSteps : valid_access_token(answer, step)
    \/ \E answer \in RefreshAnswers, step \in TokenSteps : withings_block(answer, step)

SpecToken == InitToken /\ [][NextToken]_vars

\* The expiry the tokens of the last call recorded is less than five minutes
\* after the call, or before it.
ExpiryNear ==
    /\ TokenGet(last.before, "expires_at") # Null
    /\ Timestamptz(last.before["expires_at"].s) - last.now < FiveMinutes

Float(hundredths) == [t |-> "float", hundredths |-> hundredths]
Hundredths(v) ==
    IF v.t = "num" THEN v.n * 100 ELSE IF v.t = "real" THEN v.tenths * 10 ELSE v.hundredths

\* _round_amount(value): round(value, 4), which leaves a value of two decimals
\* as it is, and the int when the rounded value is whole.
_round_amount(hundredths) ==
    IF hundredths % 100 = 0 THEN Num(hundredths \div 100) ELSE Float(hundredths)

\* max(0.5, min(1.5, float(scale))), in tenths
ScaleLow == 5
ScaleHigh == 15
ratio_unlimited(scale) == Tenths(scale)
ratio_of(scale) == Max({ScaleLow, Min({ScaleHigh, Tenths(scale)})})

\* items_master.get(item_id, {})
MasterItem(items_master, item_id) ==
    IF IsDict(items_master) /\ item_id \in DOMAIN items_master.d
    THEN items_master.d[item_id] ELSE Dict(EmptyMap)

\* item.get("ingredients", {})
BaseIngredients(item) ==
    IF "ingredients" \in DOMAIN item.d THEN item.d["ingredients"] ELSE Dict(EmptyMap)

\* The item is not skipped by one of the two "continue".
Kept(items_master, item_id) ==
    /\ IsDict(MasterItem(items_master, item_id))
    /\ IsDict(BaseIngredients(MasterItem(items_master, item_id)))

\* scaled_ingredients of one item
ScaledIngredients(base_ingredients, ratio) ==
    [k \in {n \in DOMAIN base_ingredients.d : IsNumber(base_ingredients.d[n])} |->
        _round_amount(Tenths(base_ingredients.d[k]) * ratio)]

\* The entry appended to snapshot_items for one selected item.
SnapshotItem(items_master, item_id, scale) ==
    LET item == MasterItem(items_master, item_id)
        ratio == ratio_of(scale)
    IN [item_id |-> item_id,
        name |-> IF "name" \in DOMAIN item.d THEN item.d["name"] ELSE Str(ShortString(item_id)),
        scale |-> Real(ratio),
        ingredients |-> ScaledIngredients(BaseIngredients(item), ratio)]

\* total_nutrients after one more item
AddTotals(total_nutrients, scaled_ingredients) ==
    [k \in DOMAIN total_nutrients \cup DOMAIN scaled_ingredients |->
        IF k \notin DOMAIN scaled_ingredients THEN total_nutrients[k]
        ELSE _round_amount((IF k \in DOMAIN total_nutrients
                            THEN Hundredths(total_nutrients[k]) ELSE 0)
                           + Hundredths(scaled_ingredients[k]))]

\* for item_id, scale in selected_item_scales.items(): ...
RECURSIVE SnapshotLoop(_, _, _)
SnapshotLoop(items_master, selected, acc) ==
    IF selected = <<>> THEN acc
    ELSE LET item_id == Head(selected)[1]
             scale == Head(selected)[2]
             entry == SnapshotItem(items_master, item_id, scale)
         IN IF ~Kept(items_master, item_id)
            THEN SnapshotLoop(items_master, Tail(selected), acc)
            ELSE SnapshotLoop(items_master, Tail(selected),
                              [items |-> Append(acc.items, entry),
                               total_nutrients |-> AddTotals(acc.total_nutrients,
                                                             entry.ingredients)])

\* build_intake_snapshot(items_master, selected_item_scales); the selection is
\* the sequence of its (item_id, scale) in the order of the dict.
build_intake_snapshot(items_master, selected_item_scales) ==
    SnapshotLoop(items_master, selected_item_scales,
                 [items |-> <<>>, total_nutrients |-> EmptyMap])

\* ------------------------------------------------------------------ the intake snapshot: inputs

MaxSelected == 2

Text(x) == Str(ShortString(x))

\* The items master of the test, with one more entry whose ingredients are
\* left empty in the YAML (None).  Names and units are written in ASCII.
Blend ==
    Dict(("name" :> Text("Blend")) @@ ("unit_type" :> Text("kai"))
         @@ ("ingredients" :> Dict(("vitamin_c_mg" :> Num(1000)) @@ ("protein_g" :> Num(10)))))
VitaminD ==
    Dict(("name" :> Text("Vitamin D")) @@ ("unit_type" :> Text("teki"))
         @@ ("ingredients" :> Dict(("vitamin_d_IU" :> Num(2000)) @@ ("vitamin_c_mg" :> Num(200)))))
Glycine ==
    Dict(("name" :> Text("Glycine")) @@ ("unit_type" :> Text("g")) @@ ("ingredients" :> Null))
ItemsMaster ==
    Dict(("blend" :> Blend) @@ ("vitamin_d" :> VitaminD) @@ ("glycine" :> Glycine))

\* The ids a selection may name ("ghost" is not in the master) and the scales.
ItemIds == {"blend", "vitamin_d", "glycine", "ghost"}
Scales == {Real(2), Real(10), Real(15), Real(20)}

\* The selections: up to n items, each id once.
RECURSIVE Selections(_)
Selections(n) ==
    IF n = 0 THEN {<<>>}
    ELSE LET shorter == Selections(n - 1)
         IN shorter \cup
            {Append(sel, <<id, scale>>) :
                sel \in {q \in shorter : Len(q) = n - 1},
                id \in ItemIds, scale \in Scales}

Distinct(sel) == \A i, j \in 1..Len(sel) : sel[i][1] = sel[j][1] => i = j

InitSnap ==
    /\ lake = <<>>
    /\ clock = Clock0
    /\ local_tz = JST
    /\ ncalls = 0
    /\ last = Idle
    /\ orch = Idle
    /\ proc = Idle
    /\ fn \in {[op |-> "selection", items_master |-> ItemsMaster, selected |-> sel] :
                  sel \in {q \in Selections(MaxSelected) : Distinct(q)}}

\* One call of build_intake_snapshot.
intake_snapshot ==
    /\ fn.op = "selection"
    /\ fn' = [op |-> "snapshot", items_master |-> fn.items_master, selected |-> fn.selected,
              snapshot |-> build_intake_snapshot(fn.items_master, fn.selected)]
    /\ UNCHANGED <<lake, clock, local_tz, ncalls, last, orch, proc>>

NextSnap == intake_snapshot

SpecSnap == InitSnap /\ [][NextSnap]_vars

\* ------------------------------------------------------------------ the intake snapshot: claims

\* The scale limited to the range 0.5 to 1.5, in tenths.
Limited(scale) ==
    IF Tenths(scale) < 5 THEN 5 ELSE IF Tenths(scale) > 15 THEN 15 ELSE Tenths(scale)

\* The base amount of a nutrient in the master entry of an item, in tenths
\* (0 when the entry lists no such amount).
BaseAmount(item_id, n) ==
    LET item == MasterItem(fn.items_master, item_id)
    IN IF IsDict(item) /\ "ingredients" \in DOMAIN item.d /\ IsDict(item.d["ingredients"])
          /\ n \in DOMAIN item.d["ingredients"].d
       THEN Tenths(item.d["ingredients"].d[n]) ELSE 0

Nutrients == {"vitamin_c_mg", "protein_g", "vitamin_d_IU"}

\* The sum over the selected items of base amount times limited scale, in
\* hundredths.
RECURSIVE ExpectedTotal(_, _)
ExpectedTotal(selected, n) ==
    IF selected = <<>> THEN 0
    ELSE BaseAmount(Head(selected)[1], n) * Limited(Head(selected)[2])
         + ExpectedTotal(Tail(selected), n)

TotalsAsExpected ==
    \A n \in Nutrients :
        IF n \in DOMAIN fn.snapshot.total_nutrients
        THEN Hundredths(fn.snapshot.total_nutrients[n]) = ExpectedTotal(fn.selected, n)
        ELSE ExpectedTotal(fn.selected, n) = 0

TestSelection == <<<<"blend", Real(10)>>, <<"vitamin_d", Real(15)>>>>

\* C17 as stated: build_intake_snapshot returns one item per selected item id,
\* and total_nutrients[n] is the sum over the selected items of the base amount
\* of n times the scale limited to 0.5..1.5.
C17_OneItemPerSelected ==
    fn.op = "snapshot" =>
        /\ Len(fn.snapshot.items) = Len(fn.selected)
        /\ \A i \in 1..Len(fn.snapshot.items) :
               fn.snapshot.items[i].item_id = fn.selected[i][1]
        /\ TotalsAsExpected

\* The selected entries whose master entry is a mapping with a mapping of
\* ingredients, or is missing from the master.
Usable(item_id) ==
    \/ item_id \notin DOMAIN fn.items_master.d
    \/ /\ IsDict(fn.items_master.d[item_id])
       /\ "ingredients" \in DOMAIN fn.items_master.d[item_id].d
          => IsDict(fn.items_master.d[item_id].d["ingredients"])
UsableSelected == SelectSeq(fn.selected, LAMBDA e : Usable(e[1]))

\* C17 amended: build_intake_snapshot returns one item, in the order of the
\* selection, per selected item id whose master entry is a mapping with a
\* mapping of ingredients or is missing from the master, and none for an entry
\* without such a mapping; total_nutrients[n] is the sum over the selected items
\* of the base amount of n times the scale limited to 0.5..1.5; base 1000 at
\* scale 1.0 plus base 200 at scale 1.5 gives 1300.
C17_SnapshotTotals ==
    fn.op = "snapshot" =>
        /\ Len(fn.snapshot.items) = Len(UsableSelected)
        /\ \A i \in 1..Len(fn.snapshot.items) :
               /\ fn.snapshot.items[i].item_id = UsableSelected[i][1]
               /\ fn.snapshot.items[i].scale = Real(Limited(UsableSelected[i][2]))
        /\ TotalsAsExpected
        /\ fn.selected = TestSelection
           => fn.snapshot.total_nutrients["vitamin_c_mg"] = Num(1300)

\* C17 witness: a snapshot of two items, one of them selected with a scale
\* above 1.5, whose totals are not empty.
C17_Witness ==
    /\ fn.op = "snapshot"
    /\ Len(fn.snapshot.items) = 2
    /\ \E i \in 1..2 : fn.selected[i][2] = Real(20) /\ fn.selected[i][1] = "vitamin_d"
    /\ "vitamin_c_mg" \in DOMAIN fn.snapshot.total_nutrients

\* C18: every item of the snapshot carries a quantity equal to the amount
\* selected for the item (1.0 selected gives quantity 1) and a unit_type equal
\* to the unit_type of the item in the items master.
C18_QuantityAndUnitType ==
    fn.op = "snapshot" =>
        \A i \in 1..Len(fn.snapshot.items) :
            LET entry == fn.snapshot.items[i]
                chosen == CHOOSE e \in {fn.selected[k] : k \in 1..Len(fn.selected)} :
                              e[1] = entry.item_id
            IN /\ "quantity" \in DOMAIN entry
               /\ Hundredths(entry["quantity"]) = Hundredths(chosen[2])
               /\ "unit_type" \in DOMAIN entry
               /\ entry.item_id \in DOMAIN fn.items_master.d
                  => entry["unit_type"] = fn.items_master.d[entry.item_id].d["unit_type"]

====
